---- MODULE Spec2Model ----
(***************************************************************************)
(* Model of benburwell/overhead (src/main.go): the ingestion loop App.Run, *)
(* the position builder newPosition, the interest filter, the flight       *)
(* tracker with its approach detector (App.handlePosition) and the stale   *)
(* eviction sweep (App.cleanupStaleFlights).                               *)
(*                                                                         *)
(* Representation.                                                         *)
(*  - A Go string is a sequence of one-character strings, so that the      *)
(*    strconv parsers can be computed character by character.              *)
(*  - A float64 is a record [nan, tenths]: a fixed-point number with one   *)
(*    decimal digit, or NaN.  Comparisons follow IEEE 754 (every ordered   *)
(*    comparison with NaN is false).                                       *)
(*  - A *float64 is a sequence of length 0 (nil) or 1.                     *)
(*  - A time.Time is its Unix second count; the zero time.Time is ZeroTime.*)
(*  - Coordinates are minutes of arc; every modelled point lies on the     *)
(*    observer's meridian, where one minute of latitude is one nautical    *)
(*    mile.                                                                *)
(***************************************************************************)
EXTENDS Integers, Sequences, FiniteSets, TLC

VARIABLES
  flights,      \* App.flights: flight identifier -> Position
  currentTime,  \* App.currentTime
  pc,           \* position of App.Run: "next", "switch", "cleanup", "done"
  result,       \* what App.Run returned: "none" while it runs, then "nil" or "error"
  msg,          \* Run's local msg: the message of the current loop iteration
  err,          \* handlePosition's local err: "" or the field newPosition failed on
  curr,         \* handlePosition's local curr
  prev,         \* handlePosition's locals prev, ok: <<>> when the lookup missed
  dispatch,     \* the arguments of the a.alert calls of the current iteration
  entry,        \* history: tracker and clock when the current message was received
  swept,        \* history: the tracker just before the last sweep, until the next message
  quiet,        \* history: the last sweep followed a sweep with no report parsed in between
  log,          \* history: one record per parsed report, kept in scenario runs only
  sinks,        \* the sink goroutines a.alert started, kept in sink runs only
  call,         \* the function call of a verbalizer or filter run: function, argument, value
  lcd,          \* the state of the LCD display variant (src/sync.sh)
  part001       \* the state of the variant with inline sinks (src/unnamed/part_001)

vars == <<flights, currentTime, pc, result, msg, err, curr, prev, dispatch, entry, swept, quiet, log,
          sinks, call, lcd, part001>>

\* the variables of App.Run and App.handlePosition in src/main.go
core == <<flights, currentTime, pc, result, msg, err, curr, prev, dispatch, entry, swept, quiet, log>>

(***************************************************************************)
(* Bounds of the model.                                                    *)
(***************************************************************************)
\* report clocks range over 0 and k * CleanupAfter + 1 for k in 0..MaxEpoch
MaxEpoch == 1

\* the number of reports of a scenario run
MaxReports == 4

\* bearings range over 0.0 .. MaxBearing / 10 degrees in steps of 0.1
MaxBearing == 3600

\* phonetic is called with strings of at most MaxPlain characters
MaxPlain == 3

\* identToWords is called with a designator and at most MaxSuffix more characters
MaxSuffix == 5

\* altitudeToWords is called with altitudes up to MaxAltFt feet
MaxAltFt == 11220

\* the alerts dispatched in a run with sinks
MaxDispatches == 2

\* the wall clock of the display variant advances MaxTicks times
MaxTicks == 2

\* the reports parsed in a run of the two evicting variants side by side
MaxVariantReports == 3

(***************************************************************************)
(* Program constants and configuration (the flag defaults of main).        *)
(***************************************************************************)
\* CleanupAfter = 10 * time.Minute, in seconds
CleanupAfter == 600

\* the zero time.Time (0001-01-01T00:00:00Z) of App.currentTime before any report;
\* it is earlier than every time.Unix(clock, 0) the model produces
ZeroTime == -2000000000

\* display variant: feet per nautical mile, and time.Minute in seconds
FT_PER_NM == 6080

Minute == 60

Num(t) == [nan |-> FALSE, tenths |-> t]

NaN == [nan |-> TRUE, tenths |-> 0]

\* pflag default "interesting-radius" = 10 nm
InterestingRadiusNM == Num(100)

\* pflag default "interesting-ceiling" = 15000 ft
InterestingCeilingFt == Num(150000)

\* pflag default "alert-radius" = 3 nm
AlertRadiusNM == Num(30)

\* App.Latitude, App.Longitude: the observation point
Latitude == Num(0)

Longitude == Num(0)

(***************************************************************************)
(* float64 comparisons.                                                    *)
(***************************************************************************)
FLess(a, b) == ~a.nan /\ ~b.nan /\ a.tenths < b.tenths

FGreater(a, b) == ~a.nan /\ ~b.nan /\ a.tenths > b.tenths

FLessEq(a, b) == ~a.nan /\ ~b.nan /\ a.tenths <= b.tenths

(***************************************************************************)
(* strconv.ParseInt(s, 10, 64) and strconv.ParseFloat(s, 64).              *)
(***************************************************************************)
Digits == {"0", "1", "2", "3", "4", "5", "6", "7", "8", "9"}

DigitVal(c) ==
  CASE c = "0" -> 0 [] c = "1" -> 1 [] c = "2" -> 2 [] c = "3" -> 3
    [] c = "4" -> 4 [] c = "5" -> 5 [] c = "6" -> 6 [] c = "7" -> 7
    [] c = "8" -> 8 [] c = "9" -> 9

AllDigits(s) == \A i \in 1..Len(s) : s[i] \in Digits

RECURSIVE DecVal(_)
DecVal(s) == IF s = <<>> THEN 0 ELSE 10 * DecVal(SubSeq(s, 1, Len(s) - 1)) + DigitVal(s[Len(s)])

HasSign(s) == Len(s) > 0 /\ s[1] \in {"+", "-"}

Unsigned(s) == IF HasSign(s) THEN Tail(s) ELSE s

Signed(s, v) == IF HasSign(s) /\ s[1] = "-" THEN 0 - v ELSE v

\* base-10 integer: optional sign, then one or more digits
ParseInt(s) ==
  LET u == Unsigned(s) IN
  IF Len(u) > 0 /\ AllDigits(u)
    THEN [ok |-> TRUE, val |-> Signed(s, DecVal(u))]
    ELSE [ok |-> FALSE, val |-> 0]

DotAt(u) == IF \E i \in 1..Len(u) : u[i] = "." THEN CHOOSE i \in 1..Len(u) : u[i] = "." /\ \A j \in 1..(i - 1) : u[j] # "." ELSE 0

\* decimal floating point: optional sign, digits with at most one "." (a digit on
\* at least one side of it), or "NaN".  The model's inputs carry at most one
\* fractional digit, which the fixed-point value holds exactly.
ParseFloat(s) ==
  LET u == Unsigned(s)
      d == DotAt(u)
      ip == IF d = 0 THEN u ELSE SubSeq(u, 1, d - 1)
      fp == IF d = 0 THEN <<>> ELSE SubSeq(u, d + 1, Len(u))
  IN
  IF s = <<"N", "a", "N">>
    THEN [ok |-> TRUE, val |-> NaN]
    ELSE IF AllDigits(ip) /\ AllDigits(fp) /\ Len(ip) + Len(fp) > 0 /\ Len(fp) <= 1
      THEN [ok |-> TRUE, val |-> Num(Signed(s, 10 * DecVal(ip) + (IF fp = <<>> THEN 0 ELSE DigitVal(fp[1]))))]
      ELSE [ok |-> FALSE, val |-> NaN]

(***************************************************************************)
(* strconv.Itoa, used to write the clock field of the modelled reports.    *)
(***************************************************************************)
DigitChar(d) ==
  CASE d = 0 -> "0" [] d = 1 -> "1" [] d = 2 -> "2" [] d = 3 -> "3"
    [] d = 4 -> "4" [] d = 5 -> "5" [] d = 6 -> "6" [] d = 7 -> "7"
    [] d = 8 -> "8" [] d = 9 -> "9"

RECURSIVE Itoa(_)
Itoa(n) == IF n < 10 THEN <<DigitChar(n)>> ELSE Append(Itoa(n \div 10), DigitChar(n % 10))

(***************************************************************************)
(* Geometry: geo.Latlong.DistNM to the observation point.                  *)
(***************************************************************************)
Abs(x) == IF x < 0 THEN 0 - x ELSE x

myLocation == [Lat |-> Latitude, Long |-> Longitude]

\* great-circle distance in nm between two points of one meridian; NaN when a
\* coordinate is NaN
DistNM(p, q) ==
  IF p.Lat.nan \/ p.Long.nan \/ q.Lat.nan \/ q.Long.nan
    THEN NaN
    ELSE Num(Abs(p.Lat.tenths - q.Lat.tenths))

(***************************************************************************)
(* newPosition: the position builder.  The result is [err, pos]; err is    *)
(* the empty string on success and names the failing field otherwise.      *)
(***************************************************************************)
NoPosition == [FlightID |-> <<>>, Point |-> [Lat |-> Num(0), Long |-> Num(0)],
               Altitude |-> <<>>, Ident |-> <<>>, Reg |-> <<>>, Origin |-> <<>>,
               Destination |-> <<>>, AircraftType |-> <<>>, Speed |-> <<>>,
               Heading |-> <<>>, Timestamp |-> ZeroTime]

Fail(field) == [err |-> field, pos |-> NoPosition]

\* variant: the magnetic heading wins over the true heading
HeadingSourceMagneticFirst(m) == IF m.Heading # <<>> THEN m.Heading ELSE m.HeadingTrue

\* the heading field that is parsed: the magnetic heading when it is non-empty,
\* then overwritten by the true heading when that is non-empty
HeadingSource(m) ==
  LET heading == IF m.Heading # <<>> THEN m.Heading ELSE <<>>
  IN IF m.HeadingTrue # <<>> THEN m.HeadingTrue ELSE heading

\* variant: an empty optional field is taken as 0
OptionalZero(s) == IF s = <<>> THEN <<Num(0)>> ELSE <<ParseFloat(s).val>>

\* an optional numeric field: nil when the field is empty
Optional(s) == IF s = <<>> THEN <<>> ELSE <<ParseFloat(s).val>>

OptionalBad(s) == s # <<>> /\ ~ParseFloat(s).ok

\* variant: a clock that does not parse is taken as 0 instead of failing
newPositionLenientClock(m) ==
  IF ~ParseFloat(m.Lat).ok THEN Fail("lat")
  ELSE IF ~ParseFloat(m.Lon).ok THEN Fail("lon")
  ELSE IF OptionalBad(m.Alt) THEN Fail("alt")
  ELSE IF OptionalBad(m.GS) THEN Fail("gs")
  ELSE IF OptionalBad(HeadingSource(m)) THEN Fail("heading")
  ELSE [err |-> "",
        pos |-> [FlightID |-> m.ID,
                 Point |-> [Lat |-> ParseFloat(m.Lat).val, Long |-> ParseFloat(m.Lon).val],
                 Altitude |-> Optional(m.Alt),
                 Ident |-> m.Ident,
                 Reg |-> m.Reg,
                 Origin |-> m.Orig,
                 Destination |-> m.Dest,
                 AircraftType |-> m.AircraftType,
                 Speed |-> Optional(m.GS),
                 Heading |-> Optional(HeadingSource(m)),
                 Timestamp |-> ParseInt(m.Clock).val]]

newPosition(m) ==
  IF ~ParseFloat(m.Lat).ok THEN Fail("lat")
  ELSE IF ~ParseFloat(m.Lon).ok THEN Fail("lon")
  ELSE IF OptionalBad(m.Alt) THEN Fail("alt")
  ELSE IF OptionalBad(m.GS) THEN Fail("gs")
  ELSE IF OptionalBad(HeadingSource(m)) THEN Fail("heading")
  ELSE IF ~ParseInt(m.Clock).ok THEN Fail("clock")
  ELSE [err |-> "",
        pos |-> [FlightID |-> m.ID,
                 Point |-> [Lat |-> ParseFloat(m.Lat).val, Long |-> ParseFloat(m.Lon).val],
                 Altitude |-> Optional(m.Alt),
                 Ident |-> m.Ident,
                 Reg |-> m.Reg,
                 Origin |-> m.Orig,
                 Destination |-> m.Dest,
                 AircraftType |-> m.AircraftType,
                 Speed |-> Optional(m.GS),
                 Heading |-> Optional(HeadingSource(m)),
                 Timestamp |-> ParseInt(m.Clock).val]]

(***************************************************************************)
(* App.isInteresting: the interest filter.                                 *)
(***************************************************************************)
\* variant: only the ceiling is tested
isInterestingAnyDistance(pos) == ~(pos.Altitude # <<>> /\ FGreater(pos.Altitude[1], InterestingCeilingFt))

isInteresting(pos) ==
  IF FGreater(DistNM(pos.Point, myLocation), InterestingRadiusNM) THEN FALSE
  ELSE IF pos.Altitude # <<>> /\ FGreater(pos.Altitude[1], InterestingCeilingFt) THEN FALSE
  ELSE TRUE

(***************************************************************************)
(* The messages the transport delivers.                                    *)
(***************************************************************************)
UAL641 == <<"U", "A", "L", "6", "4", "1">>

N12345 == <<"N", "1", "2", "3", "4", "5">>

Clocks == {0} \cup {k * CleanupAfter + 1 : k \in 0..MaxEpoch}

Blank(type) ==
  [type |-> type, ID |-> <<>>, Lat |-> <<>>, Lon |-> <<>>, Alt |-> <<>>, GS |-> <<>>,
   Heading |-> <<>>, HeadingTrue |-> <<>>, Clock |-> <<>>, Ident |-> <<>>, Reg |-> <<>>,
   Orig |-> <<>>, Dest |-> <<>>, AircraftType |-> <<>>]

NoMsg == Blank("none")

\* a report with the mandatory fields only
Report(id, lat, clock) ==
  [Blank("position") EXCEPT !.ID = id, !.Ident = id, !.Lat = lat, !.Lon = <<"0">>,
                            !.Clock = Itoa(clock)]

\* a report with every optional field present
FullReport(id, lat, clock) ==
  [Report(id, lat, clock) EXCEPT !.Alt = <<"3", "0", "0", "0">>, !.GS = <<"2", "5", "0">>,
                                 !.Heading = <<"9", "0">>, !.HeadingTrue = <<"2", "7", "0">>,
                                 !.Reg = <<"N", "1", "2", "3", "4", "5">>,
                                 !.Orig = <<"K", "B", "O", "S">>, !.Dest = <<"K", "J", "F", "K">>,
                                 !.AircraftType = <<"C", "1", "7", "2">>]

\* 0.8, 1.2 and 1.4 nm, the alert radius itself, outside the alert radius, and
\* just outside the interesting radius
Lats == {<<"0", ".", "8">>, <<"1", ".", "2">>, <<"1", ".", "4">>, <<"3">>, <<"3", ".", "5">>,
         <<"1", "0", ".", "1">>}

GoodReports ==
  {Report(UAL641, lat, c) : lat \in Lats, c \in Clocks}
    \cup {FullReport(N12345, <<"-", "1", ".", "2">>, c) : c \in Clocks}
    \cup {Report(<<>>, <<"1", ".", "4">>, c) : c \in Clocks}
    \cup {[Report(UAL641, <<"0", ".", "8">>, 1) EXCEPT !.Alt = <<"1", "5", "0", "0", "0", ".", "1">>],
          Report(UAL641, <<"N", "a", "N">>, 0)}

\* reports newPosition rejects, one per field
BadReports ==
  LET r == Report(UAL641, <<"0", ".", "8">>, 1) IN
  {[r EXCEPT !.Lat = <<>>],
   [r EXCEPT !.Lon = <<"W">>],
   [r EXCEPT !.Alt = <<"F", "L", "3", "0">>],
   [r EXCEPT !.GS = <<"-">>],
   [r EXCEPT !.Heading = <<"N">>],
   [r EXCEPT !.HeadingTrue = <<"N">>, !.Heading = <<"9", "0">>],
   [r EXCEPT !.Clock = <<"1", ".", "5">>],
   [r EXCEPT !.Clock = <<>>]}

Messages == GoodReports \cup BadReports \cup {Blank("error"), Blank("other")}

(***************************************************************************)
(* The tracker map.                                                        *)
(***************************************************************************)
NoFlights == [id \in {} |-> NoPosition]

\* variant: an existing entry is kept, only a new flight is inserted
UpsertKeepFirst(fl, pos) == [id \in DOMAIN fl \cup {pos.FlightID} |-> IF id \in DOMAIN fl THEN fl[id] ELSE pos]

\* variant: the entry of a flight is only replaced by a closer position
UpsertClosest(fl, pos) ==
  IF pos.FlightID \in DOMAIN fl /\ ~FLess(DistNM(pos.Point, myLocation), DistNM(fl[pos.FlightID].Point, myLocation))
    THEN fl
    ELSE [id \in DOMAIN fl \cup {pos.FlightID} |-> IF id = pos.FlightID THEN pos ELSE fl[id]]

\* a.flights[curr.FlightID] = curr
Upsert(fl, pos) == [id \in DOMAIN fl \cup {pos.FlightID} |-> IF id = pos.FlightID THEN pos ELSE fl[id]]

\* prev, ok := a.flights[curr.FlightID]
Lookup(fl, id) == IF id \in DOMAIN fl THEN <<fl[id]>> ELSE <<>>

\* variant: the alert radius is inclusive
ShouldAlertInclusive(p, c) ==
  /\ p # <<>>
  /\ LET distToPrev == DistNM(p[1].Point, myLocation)
         distToCurr == DistNM(c.Point, myLocation)
     IN FLess(distToCurr, distToPrev) /\ ~FGreater(distToCurr, AlertRadiusNM)

\* variant: a first sighting inside the alert radius alerts
ShouldAlertFirstSighting(p, c) ==
  LET distToCurr == DistNM(c.Point, myLocation)
  IN IF p = <<>>
       THEN FLess(distToCurr, AlertRadiusNM)
       ELSE FLess(distToCurr, DistNM(p[1].Point, myLocation)) /\ FLess(distToCurr, AlertRadiusNM)

\* variant: every report inside the alert radius alerts, closing or not
ShouldAlertInsideOnly(p, c) ==
  /\ p # <<>>
  /\ FLess(DistNM(c.Point, myLocation), AlertRadiusNM)

\* the condition under which handlePosition calls a.alert
ShouldAlert(p, c) ==
  /\ p # <<>>
  /\ LET distToPrev == DistNM(p[1].Point, myLocation)
         distToCurr == DistNM(c.Point, myLocation)
     IN FLess(distToCurr, distToPrev) /\ FLess(distToCurr, AlertRadiusNM)

\* variant: the clock only moves forward
AdvanceClockMonotonic(now, pos) == IF pos.Timestamp > now THEN pos.Timestamp ELSE now

\* variant: only a report that passes the interest filter sets the clock
AdvanceClockInteresting(now, pos) == IF isInteresting(pos) THEN pos.Timestamp ELSE now

\* a.currentTime = curr.Timestamp
AdvanceClock(now, pos) == pos.Timestamp

\* variant: an entry whose age equals CleanupAfter is stale too
StaleInclusive(flight, now) == flight.Timestamp + CleanupAfter <= now

\* flight.Timestamp.Add(CleanupAfter).Before(a.currentTime)
Stale(flight, now) == flight.Timestamp + CleanupAfter < now

\* variant: the sweep stops after the first entry it deletes
SweepOne(fl, now) ==
  LET stale == {i \in DOMAIN fl : Stale(fl[i], now)}
  IN IF stale = {} THEN fl
     ELSE [id \in DOMAIN fl \ {CHOOSE i \in stale : TRUE} |-> fl[id]]

\* variant: the sweep is left to a timer and removes nothing here
SweepLater(fl, now) == fl

\* the tracker after the sweep
Sweep(fl, now) == [id \in {i \in DOMAIN fl : ~Stale(fl[i], now)} |-> fl[id]]

(***************************************************************************)
(* App.Run.                                                                *)
(***************************************************************************)
NoEntry == [flights |-> NoFlights, currentTime |-> ZeroTime, swept |-> FALSE]

\* no sink goroutine is tracked
NoSinks == [on |-> FALSE, Announce |-> FALSE, WebhookURL |-> <<>>, tasks |-> <<>>, tracked |-> <<>>]

NoCall == [fn |-> "none", arg |-> <<>>, val |-> <<>>]

NoLcd == [on |-> FALSE, position |-> <<>>, now |-> 0, flip |-> FALSE]

\* the App of src/unnamed/part_001 before Run: no tracker entry, zero clock
NoPart001 ==
  [on |-> FALSE, Announce |-> FALSE, pc |-> "next", result |-> "none", msg |-> NoMsg,
   flights |-> NoFlights, currentTime |-> ZeroTime, curr |-> NoPosition, alert |-> FALSE,
   reports |-> <<>>]

Init ==
  /\ flights = NoFlights
  /\ currentTime = ZeroTime
  /\ pc = "next"
  /\ result = "none"
  /\ msg = NoMsg
  /\ err = ""
  /\ curr = NoPosition
  /\ prev = <<>>
  /\ dispatch = <<>>
  /\ entry = NoEntry
  /\ swept = <<>>
  /\ quiet = FALSE
  /\ log = [on |-> FALSE, reports |-> <<>>]
  /\ sinks = NoSinks
  /\ call = NoCall
  /\ lcd = NoLcd
  /\ part001 = NoPart001

\* stream.NextMessage returns a message; the locals of the iteration are fresh
Deliver(m) ==
  /\ pc = "next"
  /\ msg' = m
  /\ pc' = "switch"
  /\ err' = ""
  /\ curr' = NoPosition
  /\ prev' = <<>>
  /\ dispatch' = <<>>
  /\ entry' = [flights |-> flights, currentTime |-> currentTime, swept |-> swept # <<>>]
  /\ swept' = <<>>
  /\ quiet' = FALSE
  /\ UNCHANGED <<flights, currentTime, result, log, sinks, call, lcd>>

NextMessage ==
  /\ \E m \in Messages : Deliver(m)
  /\ UNCHANGED part001

\* variant: cancellation is returned to the caller like any other error
RunReturnsEveryError(e) == "error"

\* Run's handling of the error of stream.NextMessage: nil on context.Canceled
RunReturns(e) == IF e = "canceled" THEN "nil" ELSE "error"

\* stream.NextMessage returns context.Canceled: Run returns nil
Canceled ==
  /\ pc = "next"
  /\ err' = "canceled"
  /\ pc' = "done"
  /\ result' = RunReturns("canceled")
  /\ UNCHANGED <<flights, currentTime, msg, curr, prev, dispatch, entry, swept, quiet, log,
                 sinks, call, lcd, part001>>

\* stream.NextMessage returns another error: Run returns it
NextMessageError ==
  /\ pc = "next"
  /\ err' = "stream"
  /\ pc' = "done"
  /\ result' = RunReturns("stream")
  /\ UNCHANGED <<flights, currentTime, msg, curr, prev, dispatch, entry, swept, quiet, log,
                 sinks, call, lcd, part001>>

Record(l, e) == IF l.on THEN [l EXCEPT !.reports = Append(l.reports, e)] ELSE l

NoRuns == [displayFlight |-> 0, postWebhook |-> 0, say |-> 0]

\* the addresses of the Position records that the tracker or a goroutine holds
Used(s) ==
  {s.tracked[id] : id \in DOMAIN s.tracked}
    \cup UNION {{s.tasks[i].args[f] : f \in DOMAIN s.tasks[i].args} : i \in DOMAIN s.tasks}

\* newPosition returns &pos, a record of its own: the first address not in use
newAddr(s) == CHOOSE a \in 1..(Cardinality(Used(s)) + 1) : a \notin Used(s) /\ \A b \in 1..(a - 1) : b \in Used(s)

\* variant: alert runs the three sinks itself and returns when they are done
alertInline(s, c) ==
  IF s.on
    THEN [s EXCEPT !.tasks = Append(@, [pos |-> c,
            args |-> [displayFlight |-> newAddr(s), postWebhook |-> newAddr(s), say |-> newAddr(s)],
            runs |-> NoRuns,
            displayFlight |-> "done",
            postWebhook |-> IF s.WebhookURL = <<>> THEN "skipped" ELSE "responded",
            say |-> IF s.Announce THEN "spoken" ELSE "skipped"])]
    ELSE s

\* a.alert: three goroutines are started on the same *Position, none is awaited
alert(s, c) ==
  IF s.on
    THEN [s EXCEPT !.tasks = Append(@, [pos |-> c,
            args |-> [displayFlight |-> newAddr(s), postWebhook |-> newAddr(s), say |-> newAddr(s)],
            runs |-> NoRuns,
            displayFlight |-> "go", postWebhook |-> "go", say |-> "go"])]
    ELSE s

\* a.flights[curr.FlightID] = curr stores the pointer
track(s, id, a) ==
  IF s.on
    THEN [s EXCEPT !.tracked = [i \in DOMAIN s.tracked \cup {id} |-> IF i = id THEN a ELSE s.tracked[i]]]
    ELSE s

\* delete(a.flights, id) drops the pointer
untrack(s, ids) == IF s.on THEN [s EXCEPT !.tracked = [i \in DOMAIN s.tracked \cap ids |-> s.tracked[i]]] ELSE s

handlePosition ==
  /\ pc = "switch"
  /\ msg.type = "position"
  /\ \E r \in {newPosition(msg)} :
     LET c == r.pos
         p == Lookup(flights, c.FlightID)
     IN /\ err' = r.err
        /\ IF r.err # ""
             THEN UNCHANGED <<flights, currentTime, curr, prev, dispatch, log, sinks>>
             ELSE /\ curr' = c
                  /\ currentTime' = AdvanceClock(currentTime, c)
                  /\ IF ~isInteresting(c)
                       THEN /\ UNCHANGED <<flights, prev, dispatch, sinks>>
                            /\ log' = Record(log, [pos |-> c, stored |-> FALSE, alert |-> FALSE])
                       ELSE /\ prev' = p
                            /\ dispatch' = IF ShouldAlert(p, c) THEN Append(dispatch, c) ELSE dispatch
                            /\ sinks' = track(IF ShouldAlert(p, c) THEN alert(sinks, c) ELSE sinks,
                                               c.FlightID, newAddr(sinks))
                            /\ flights' = Upsert(flights, c)
                            /\ log' = Record(log, [pos |-> c, stored |-> TRUE, alert |-> ShouldAlert(p, c)])
  /\ pc' = "cleanup"
  /\ UNCHANGED <<result, msg, entry, swept, quiet, call, lcd, part001>>

\* case firehose.ErrorMessage: Run returns an error
ErrorMessage ==
  /\ pc = "switch"
  /\ msg.type = "error"
  /\ pc' = "done"
  /\ result' = "error"
  /\ UNCHANGED <<flights, currentTime, msg, err, curr, prev, dispatch, entry, swept, quiet, log,
                 sinks, call, lcd, part001>>

\* any other payload: the switch has no case for it
OtherPayload ==
  /\ pc = "switch"
  /\ msg.type = "other"
  /\ pc' = "cleanup"
  /\ UNCHANGED <<flights, currentTime, result, msg, err, curr, prev, dispatch, entry, swept, quiet, log,
                 sinks, call, lcd, part001>>

\* the sweep ends the loop iteration: the locals of the iteration are gone
cleanupStaleFlights ==
  /\ pc = "cleanup"
  /\ swept' = <<flights>>
  /\ quiet' = (entry.swept /\ flights = entry.flights /\ currentTime = entry.currentTime)
  /\ flights' = Sweep(flights, currentTime)
  /\ pc' = "next"
  /\ msg' = NoMsg
  /\ err' = ""
  /\ curr' = NoPosition
  /\ prev' = <<>>
  /\ dispatch' = <<>>
  /\ entry' = NoEntry
  /\ sinks' = untrack(sinks, DOMAIN Sweep(flights, currentTime))
  /\ UNCHANGED <<currentTime, result, log, call, lcd, part001>>

Next ==
  \/ NextMessage
  \/ Canceled
  \/ NextMessageError
  \/ handlePosition
  \/ ErrorMessage
  \/ OtherPayload
  \/ cleanupStaleFlights

Spec == Init /\ [][Next]_vars

(***************************************************************************)
(* Runs of at most MaxReports reports of one flight, with the log kept     *)
(* over the whole run.                                                     *)
(***************************************************************************)
ScenarioLats == {<<"0", ".", "8">>, <<"1", ".", "2">>, <<"1", ".", "4">>}

\* a report at 10.1 nm fails the interest filter
ScenarioMessages == {Report(UAL641, lat, c) : lat \in ScenarioLats \cup {<<"1", "0", ".", "1">>}, c \in Clocks}

InitScenario ==
  /\ flights = NoFlights
  /\ currentTime = ZeroTime
  /\ pc = "next"
  /\ result = "none"
  /\ msg = NoMsg
  /\ err = ""
  /\ curr = NoPosition
  /\ prev = <<>>
  /\ dispatch = <<>>
  /\ entry = NoEntry
  /\ swept = <<>>
  /\ quiet = FALSE
  /\ log = [on |-> TRUE, reports |-> <<>>]
  /\ sinks = NoSinks
  /\ call = NoCall
  /\ lcd = NoLcd
  /\ part001 = NoPart001

NextMessageScenario ==
  /\ Len(log.reports) < MaxReports
  /\ \E m \in ScenarioMessages : Deliver(m)
  /\ UNCHANGED part001

NextScenario ==
  \/ NextMessageScenario
  \/ handlePosition
  \/ cleanupStaleFlights

SpecScenario == InitScenario /\ [][NextScenario]_vars

(***************************************************************************)
(* src/unnamed/part_001 beside src/main.go: both read the same messages.   *)
(* The Position of part_001 has the fields of main.go's in lower case; the *)
(* model uses one record for both.                                         *)
(***************************************************************************)
\* part_001's handlePosition up to the a.alert call: the clock is set, the
\* filter applied, the previous entry looked up and compared
handlePosition001 ==
  /\ part001.on
  /\ part001.pc = "switch"
  /\ part001.msg.type = "position"
  /\ \E r \in {newPosition(part001.msg)} :
       LET c == r.pos
           fl == part001.flights
           distToCurr == DistNM(c.Point, myLocation)
           alerts == /\ c.FlightID \in DOMAIN fl
                     /\ FLess(distToCurr, DistNM(fl[c.FlightID].Point, myLocation))
                     /\ FLess(distToCurr, AlertRadiusNM)
       IN part001' =
            IF r.err # "" THEN [part001 EXCEPT !.pc = "cleanup"]
            ELSE IF ~isInteresting(c)
              THEN [part001 EXCEPT !.pc = "cleanup", !.currentTime = c.Timestamp,
                                   !.reports = Append(@, [pos |-> c, stored |-> FALSE, alert |-> FALSE])]
              ELSE [part001 EXCEPT !.currentTime = c.Timestamp, !.curr = c, !.alert = alerts,
                                   !.pc = IF alerts THEN "displayFlight" ELSE "store"]
  /\ UNCHANGED <<core, sinks, call, lcd>>

\* a.alert calls a.displayFlight(curr) and waits for it
displayFlight001 ==
  /\ part001.on
  /\ part001.pc = "displayFlight"
  /\ part001' = [part001 EXCEPT !.pc = IF part001.Announce THEN "say" ELSE "store"]
  /\ UNCHANGED <<core, sinks, call, lcd>>

\* a.alert calls a.say(curr) if a.Announce and waits for the command to end
say001 ==
  /\ part001.on
  /\ part001.pc = "say"
  /\ part001' = [part001 EXCEPT !.pc = "store"]
  /\ UNCHANGED <<core, sinks, call, lcd>>

\* a.flights[curr.flightID] = curr, after a.alert has returned
store001 ==
  /\ part001.on
  /\ part001.pc = "store"
  /\ part001' =
       [part001 EXCEPT !.pc = "cleanup", !.curr = NoPosition, !.alert = FALSE,
          !.flights = [id \in DOMAIN @ \cup {part001.curr.FlightID} |->
                         IF id = part001.curr.FlightID THEN part001.curr ELSE @[id]],
          !.reports = Append(@, [pos |-> part001.curr, stored |-> TRUE, alert |-> part001.alert])]
  /\ UNCHANGED <<core, sinks, call, lcd>>

\* case firehose.ErrorMessage of part_001's Run
errorMessage001 ==
  /\ part001.on
  /\ part001.pc = "switch"
  /\ part001.msg.type = "error"
  /\ part001' = [part001 EXCEPT !.pc = "done", !.result = "error"]
  /\ UNCHANGED <<core, sinks, call, lcd>>

\* any other payload in part_001's Run
otherPayload001 ==
  /\ part001.on
  /\ part001.pc = "switch"
  /\ part001.msg.type = "other"
  /\ part001' = [part001 EXCEPT !.pc = "cleanup"]
  /\ UNCHANGED <<core, sinks, call, lcd>>

\* part_001's cleanupStaleFlights, the end of its loop iteration
cleanupStaleFlights001 ==
  /\ part001.on
  /\ part001.pc = "cleanup"
  /\ part001' =
       [part001 EXCEPT !.pc = "next", !.msg = NoMsg,
          !.flights = [id \in {i \in DOMAIN @ : ~(@[i].Timestamp + CleanupAfter < part001.currentTime)} |-> @[id]]]
  /\ UNCHANGED <<core, sinks, call, lcd>>

\* UAL641 at 0.8, 1.4 and 10.1 nm at clock 0 or after CleanupAfter, a second
\* flight, a report that does not parse, an error and another payload
VariantMessages ==
  {Report(UAL641, lat, c) : lat \in {<<"0", ".", "8">>, <<"1", ".", "4">>, <<"1", "0", ".", "1">>},
                            c \in {0, CleanupAfter + 1}}
    \cup {Report(N12345, <<"1", ".", "4">>, 0),
          [Report(UAL641, <<"0", ".", "8">>, 1) EXCEPT !.Clock = <<>>],
          Blank("error"), Blank("other")}

InitVariants ==
  /\ flights = NoFlights
  /\ currentTime = ZeroTime
  /\ pc = "next"
  /\ result = "none"
  /\ msg = NoMsg
  /\ err = ""
  /\ curr = NoPosition
  /\ prev = <<>>
  /\ dispatch = <<>>
  /\ entry = NoEntry
  /\ swept = <<>>
  /\ quiet = FALSE
  /\ log = [on |-> TRUE, reports |-> <<>>]
  /\ sinks = NoSinks
  /\ call = NoCall
  /\ lcd = NoLcd
  /\ part001 \in {[NoPart001 EXCEPT !.on = TRUE, !.Announce = a] : a \in BOOLEAN}

\* stream.NextMessage of both programs returns the next message of the feed
NextMessageVariants ==
  /\ part001.pc = "next"
  /\ Len(log.reports) < MaxVariantReports
  /\ \E m \in VariantMessages :
       /\ Deliver(m)
       /\ part001' = [part001 EXCEPT !.pc = "switch", !.msg = m]

NextVariants ==
  \/ NextMessageVariants
  \/ handlePosition
  \/ ErrorMessage
  \/ OtherPayload
  \/ cleanupStaleFlights
  \/ handlePosition001
  \/ displayFlight001
  \/ say001
  \/ store001
  \/ errorMessage001
  \/ otherPayload001
  \/ cleanupStaleFlights001

SpecVariants == InitVariants /\ [][NextVariants]_vars

(***************************************************************************)
(* The sinks of an alert.  Each dispatch starts three goroutines; a        *)
(* goroutine is "go" until it returns, and what it returned is kept.       *)
(***************************************************************************)
\* variant: a failing sink ends the run with the error
logFatalln(r) == "error"

\* log.Println(err.Error()): the error of a sink is logged, Run's result is untouched
logPrintln(r) == r

\* what postWebhook can return with: nothing to do without a URL; else the
\* body or the request cannot be built ("unsent"), or the one request is sent
\* and is answered or ends with an error or the timeout ("failed")
postWebhookReturns(s) == IF s.WebhookURL = <<>> THEN {"skipped"} ELSE {"unsent", "responded", "failed"}

\* variant: a failed request or command is tried a second time
attemptsWithRetry(o) == IF o \in {"skipped", "unsent"} THEN 0 ELSE IF o = "failed" THEN 2 ELSE 1

\* how often a sink that returned with o issued its request or ran its command
attempts(o) == IF o \in {"skipped", "unsent"} THEN 0 ELSE 1

\* what say can return with: nothing to do unless Announce; else the say
\* process exits with or without an error
sayReturns(s) == IF s.Announce THEN {"spoken", "failed"} ELSE {"skipped"}

\* variant: displayFlight also drops the flight it has shown from the tracker
displayFlightForgets(i) ==
  /\ i \in DOMAIN sinks.tasks
  /\ sinks.tasks[i].displayFlight = "go"
  /\ sinks' = [sinks EXCEPT !.tasks[i].displayFlight = "done", !.tasks[i].runs.displayFlight = @ + 1]
  /\ flights' = [id \in DOMAIN flights \ {sinks.tasks[i].pos.FlightID} |-> flights[id]]
  /\ UNCHANGED <<currentTime, pc, result, msg, err, curr, prev, dispatch, entry, swept, quiet, log,
                 call, lcd, part001>>

displayFlight(i) ==
  /\ i \in DOMAIN sinks.tasks
  /\ sinks.tasks[i].displayFlight = "go"
  /\ sinks' = [sinks EXCEPT !.tasks[i].displayFlight = "done", !.tasks[i].runs.displayFlight = @ + 1]
  /\ UNCHANGED <<core, call, lcd, part001>>

postWebhook(i) ==
  /\ i \in DOMAIN sinks.tasks
  /\ sinks.tasks[i].postWebhook = "go"
  /\ \E o \in postWebhookReturns(sinks) :
       /\ sinks' = [sinks EXCEPT !.tasks[i].postWebhook = o, !.tasks[i].runs.postWebhook = @ + attempts(o)]
       /\ result' = IF o \in {"unsent", "failed"} THEN logPrintln(result) ELSE result
  /\ UNCHANGED <<flights, currentTime, pc, msg, err, curr, prev, dispatch, entry, swept, quiet, log,
                 call, lcd, part001>>

say(i) ==
  /\ i \in DOMAIN sinks.tasks
  /\ sinks.tasks[i].say = "go"
  /\ \E o \in sayReturns(sinks) :
       /\ sinks' = [sinks EXCEPT !.tasks[i].say = o, !.tasks[i].runs.say = @ + attempts(o)]
       /\ result' = IF o = "failed" THEN logPrintln(result) ELSE result
  /\ UNCHANGED <<flights, currentTime, pc, msg, err, curr, prev, dispatch, entry, swept, quiet, log,
                 call, lcd, part001>>

Hook == <<"h", "t", "t", "p", ":", "/", "/", "h">>

\* UAL641 flies in and out: every report at 0.8 nm after one at 1.4 nm is an alert
SinkMessages == {Report(UAL641, lat, 0) : lat \in {<<"0", ".", "8">>, <<"1", ".", "4">>}}

InitSinks ==
  /\ flights = NoFlights
  /\ currentTime = ZeroTime
  /\ pc = "next"
  /\ result = "none"
  /\ msg = NoMsg
  /\ err = ""
  /\ curr = NoPosition
  /\ prev = <<>>
  /\ dispatch = <<>>
  /\ entry = NoEntry
  /\ swept = <<>>
  /\ quiet = FALSE
  /\ log = [on |-> FALSE, reports |-> <<>>]
  /\ sinks \in {[on |-> TRUE, Announce |-> a, WebhookURL |-> u, tasks |-> <<>>, tracked |-> <<>>] :
                  a \in BOOLEAN, u \in {<<>>, Hook}}
  /\ call = NoCall
  /\ lcd = NoLcd
  /\ part001 = NoPart001

NextMessageSinks ==
  /\ Len(sinks.tasks) < MaxDispatches
  /\ \E m \in SinkMessages : Deliver(m)
  /\ UNCHANGED part001

NextSinks ==
  \/ NextMessageSinks
  \/ Canceled
  \/ NextMessageError
  \/ handlePosition
  \/ cleanupStaleFlights
  \/ \E i \in DOMAIN sinks.tasks : displayFlight(i)
  \/ \E i \in DOMAIN sinks.tasks : postWebhook(i)
  \/ \E i \in DOMAIN sinks.tasks : say(i)

SpecSinks == InitSinks /\ [][NextSinks]_vars

(***************************************************************************)
(* The LCD display variant: Run hands every parsed position to             *)
(* renderPositions, which keeps the one position to display.               *)
(***************************************************************************)
\* the defaults of the flags radius and ceiling
RadiusNM == Num(30)

CeilingFt == Num(100000)

\* altitudes are whole feet; 5000 ft when the position has none
assumeAltitude(p) == IF p.Altitude # <<>> THEN p.Altitude[1] ELSE Num(50000)

\* the square of the 3-D distance in feet (math.Sqrt is monotone)
Dist3DSquared(p) ==
  LET distFt == (DistNM(p.Point, myLocation).tenths * FT_PER_NM) \div 10
      alt == assumeAltitude(p).tenths \div 10
  IN  distFt * distFt + alt * alt

Finite3D(p) == ~DistNM(p.Point, myLocation).nan /\ ~assumeAltitude(p).nan

\* variant: a displayed position of exactly one minute of age counts as old
shouldReplaceStaleInclusive(prevPos, currPos, now) ==
  IF prevPos = <<>> THEN TRUE
  ELSE IF Finite3D(prevPos[1]) /\ Finite3D(currPos) /\ Dist3DSquared(currPos) < Dist3DSquared(prevPos[1]) THEN TRUE
  ELSE IF now - prevPos[1].Timestamp >= Minute THEN TRUE
  ELSE FALSE

shouldReplace(prevPos, currPos, now) ==
  IF prevPos = <<>> THEN TRUE
  ELSE IF Finite3D(prevPos[1]) /\ Finite3D(currPos) /\ Dist3DSquared(currPos) < Dist3DSquared(prevPos[1]) THEN TRUE
  ELSE IF now - prevPos[1].Timestamp > Minute THEN TRUE
  ELSE FALSE

LcdAlts == {<<>>, <<"3", "0", "0", "0">>, <<"2", "0", "0", "0", "0">>}

LcdMessages ==
  {[Report(UAL641, lat, c) EXCEPT !.Alt = alt] :
     lat \in {<<"1">>, <<"2">>, <<"3">>}, alt \in LcdAlts, c \in {0, Minute + 1}}
  \cup {[Report(UAL641, <<"1">>, 0) EXCEPT !.Clock = <<>>], Blank("error")}

InitLcd ==
  /\ flights = NoFlights
  /\ currentTime = ZeroTime
  /\ pc = "next"
  /\ result = "none"
  /\ msg = NoMsg
  /\ err = ""
  /\ curr = NoPosition
  /\ prev = <<>>
  /\ dispatch = <<>>
  /\ entry = NoEntry
  /\ swept = <<>>
  /\ quiet = FALSE
  /\ log = [on |-> FALSE, reports |-> <<>>]
  /\ sinks = NoSinks
  /\ call = NoCall
  /\ lcd = [on |-> TRUE, position |-> <<>>, now |-> 0, flip |-> FALSE]
  /\ part001 = NoPart001

NextMessageLcd ==
  /\ \E m \in LcdMessages : Deliver(m)
  /\ UNCHANGED part001

\* case firehose.PositionMessage: a parsed position is sent on the channel and
\* received by renderPositions; the loop goes on to the next message
sendPosition ==
  /\ pc = "switch"
  /\ msg.type = "position"
  /\ \E r \in {newPosition(msg)} :
       /\ err' = r.err
       /\ IF r.err # ""
            THEN UNCHANGED <<curr, lcd, part001>>
            ELSE /\ curr' = r.pos
                 /\ lcd' = IF shouldReplace(lcd.position, r.pos, lcd.now)
                             THEN [lcd EXCEPT !.position = <<r.pos>>]
                             ELSE lcd
  /\ pc' = "next"
  /\ UNCHANGED <<flights, currentTime, result, msg, prev, dispatch, entry, swept, quiet, log, sinks, call, part001>>

\* case <-refresh.C: a position older than a minute is dropped and the screen cleared
refresh ==
  /\ lcd.on
  /\ lcd' = IF lcd.position # <<>> /\ lcd.now - lcd.position[1].Timestamp > Minute
              THEN [lcd EXCEPT !.flip = ~@, !.position = <<>>]
              ELSE [lcd EXCEPT !.flip = ~@]
  /\ UNCHANGED <<core, sinks, call, part001>>

\* time.Now() advances
Tick ==
  /\ lcd.on
  /\ lcd.now < MaxTicks * (Minute + 1)
  /\ lcd' = [lcd EXCEPT !.now = @ + Minute + 1]
  /\ UNCHANGED <<core, sinks, call, part001>>

NextLcd ==
  \/ NextMessageLcd
  \/ Canceled
  \/ NextMessageError
  \/ sendPosition
  \/ ErrorMessage
  \/ refresh
  \/ Tick

SpecLcd == InitLcd /\ [][NextLcd]_vars

(***************************************************************************)
(* cardinalDirection: the 8-point compass bucket of a bearing in degrees.  *)
(***************************************************************************)
\* variant: the north bucket is closed at 337.5
cardinalDirectionClosedNorth(bearing) ==
  IF FLessEq(Num(3375), bearing) \/ FLessEq(bearing, Num(225)) THEN <<"n", "o", "r", "t", "h">>
  ELSE IF FGreater(bearing, Num(225)) /\ FLessEq(bearing, Num(675)) THEN <<"n", "o", "r", "t", "h", "e", "a", "s", "t">>
  ELSE IF FGreater(bearing, Num(675)) /\ FLessEq(bearing, Num(1125)) THEN <<"e", "a", "s", "t">>
  ELSE IF FGreater(bearing, Num(1125)) /\ FLessEq(bearing, Num(1575)) THEN <<"s", "o", "u", "t", "h", "e", "a", "s", "t">>
  ELSE IF FGreater(bearing, Num(1575)) /\ FLessEq(bearing, Num(2025)) THEN <<"s", "o", "u", "t", "h">>
  ELSE IF FGreater(bearing, Num(2025)) /\ FLessEq(bearing, Num(2475)) THEN <<"s", "o", "u", "t", "h", "w", "e", "s", "t">>
  ELSE IF FGreater(bearing, Num(2475)) /\ FLessEq(bearing, Num(2925)) THEN <<"w", "e", "s", "t">>
  ELSE IF FGreater(bearing, Num(2925)) /\ FLessEq(bearing, Num(3375)) THEN <<"n", "o", "r", "t", "h", "w", "e", "s", "t">>
  ELSE <<>>

cardinalDirection(bearing) ==
  IF FGreater(bearing, Num(3375)) \/ FLessEq(bearing, Num(225)) THEN <<"n", "o", "r", "t", "h">>
  ELSE IF FGreater(bearing, Num(225)) /\ FLessEq(bearing, Num(675)) THEN <<"n", "o", "r", "t", "h", "e", "a", "s", "t">>
  ELSE IF FGreater(bearing, Num(675)) /\ FLessEq(bearing, Num(1125)) THEN <<"e", "a", "s", "t">>
  ELSE IF FGreater(bearing, Num(1125)) /\ FLessEq(bearing, Num(1575)) THEN <<"s", "o", "u", "t", "h", "e", "a", "s", "t">>
  ELSE IF FGreater(bearing, Num(1575)) /\ FLessEq(bearing, Num(2025)) THEN <<"s", "o", "u", "t", "h">>
  ELSE IF FGreater(bearing, Num(2025)) /\ FLessEq(bearing, Num(2475)) THEN <<"s", "o", "u", "t", "h", "w", "e", "s", "t">>
  ELSE IF FGreater(bearing, Num(2475)) /\ FLessEq(bearing, Num(2925)) THEN <<"w", "e", "s", "t">>
  ELSE IF FGreater(bearing, Num(2925)) /\ FLessEq(bearing, Num(3375)) THEN <<"n", "o", "r", "t", "h", "w", "e", "s", "t">>
  ELSE <<>>

(***************************************************************************)
(* The verbalizer: words are strings, a result is a sequence of words.     *)
(***************************************************************************)
UpperLetters == {"A", "B", "C", "D", "E", "F", "G", "H", "I", "J", "K", "L", "M", "N", "O", "P", "Q", "R", "S", "T", "U", "V", "W", "X", "Y", "Z"}

\* phonetic: the alphabet of the spelling
alphabet ==
  ("A" :> <<"a", "l", "p", "h", "a">>) @@
  ("B" :> <<"b", "r", "a", "v", "o">>) @@
  ("C" :> <<"c", "h", "a", "r", "l", "i", "e">>) @@
  ("D" :> <<"d", "e", "l", "t", "a">>) @@
  ("E" :> <<"e", "c", "h", "o">>) @@
  ("F" :> <<"f", "o", "x", "t", "r", "o", "t">>) @@
  ("G" :> <<"g", "o", "l", "f">>) @@
  ("H" :> <<"h", "o", "t", "e", "l">>) @@
  ("I" :> <<"i", "n", "d", "i", "a">>) @@
  ("J" :> <<"j", "u", "l", "i", "e", "t">>) @@
  ("K" :> <<"k", "i", "l", "o">>) @@
  ("L" :> <<"l", "i", "m", "a">>) @@
  ("M" :> <<"m", "i", "k", "e">>) @@
  ("N" :> <<"n", "o", "v", "e", "m", "b", "e", "r">>) @@
  ("O" :> <<"o", "s", "c", "a", "r">>) @@
  ("P" :> <<"p", "a", "p", "a">>) @@
  ("Q" :> <<"q", "u", "e", "b", "e", "c">>) @@
  ("R" :> <<"r", "o", "m", "e", "o">>) @@
  ("S" :> <<"s", "i", "e", "r", "r", "a">>) @@
  ("T" :> <<"t", "a", "n", "g", "o">>) @@
  ("U" :> <<"u", "n", "i", "f", "o", "r", "m">>) @@
  ("V" :> <<"v", "i", "c", "t", "o", "r">>) @@
  ("W" :> <<"w", "h", "i", "s", "k", "e", "y">>) @@
  ("X" :> <<"x", "-", "r", "a", "y">>) @@
  ("Y" :> <<"y", "a", "n", "k", "e", "e">>) @@
  ("Z" :> <<"z", "u", "l", "u">>) @@
  ("0" :> <<"z", "e", "r", "o">>) @@
  ("1" :> <<"o", "n", "e">>) @@
  ("2" :> <<"t", "w", "o">>) @@
  ("3" :> <<"t", "h", "r", "e", "e">>) @@
  ("4" :> <<"f", "o", "u", "r">>) @@
  ("5" :> <<"f", "i", "v", "e">>) @@
  ("6" :> <<"s", "i", "x">>) @@
  ("7" :> <<"s", "e", "v", "e", "n">>) @@
  ("8" :> <<"e", "i", "g", "h", "t">>) @@
  ("9" :> <<"n", "i", "n", "e", "r">>) @@
  ("." :> <<"p", "o", "i", "n", "t">>)

\* variant: characters outside the alphabet are left out
phoneticSkipUnmapped(plain) ==
  LET mapped == SelectSeq(plain, LAMBDA c : c \in DOMAIN alphabet)
  IN  [i \in 1..Len(mapped) |-> alphabet[mapped[i]]]

\* strings.ToUpper on the letters a-z
upperOf ==
  ("a" :> "A") @@
  ("b" :> "B") @@
  ("c" :> "C") @@
  ("d" :> "D") @@
  ("e" :> "E") @@
  ("f" :> "F") @@
  ("g" :> "G") @@
  ("h" :> "H") @@
  ("i" :> "I") @@
  ("j" :> "J") @@
  ("k" :> "K") @@
  ("l" :> "L") @@
  ("m" :> "M") @@
  ("n" :> "N") @@
  ("o" :> "O") @@
  ("p" :> "P") @@
  ("q" :> "Q") @@
  ("r" :> "R") @@
  ("s" :> "S") @@
  ("t" :> "T") @@
  ("u" :> "U") @@
  ("v" :> "V") @@
  ("w" :> "W") @@
  ("x" :> "X") @@
  ("y" :> "Y") @@
  ("z" :> "Z")

ToUpper(str) == [i \in 1..Len(str) |-> IF str[i] \in DOMAIN upperOf THEN upperOf[str[i]] ELSE str[i]]

\* variant: the lookup folds the case of the character first
phoneticFoldCase(plain) ==
  [i \in 1..Len(plain) |->
     IF ToUpper(plain)[i] \in DOMAIN alphabet THEN alphabet[ToUpper(plain)[i]] ELSE <<plain[i]>>]

phonetic(plain) ==
  [i \in 1..Len(plain) |-> IF plain[i] \in DOMAIN alphabet THEN alphabet[plain[i]] ELSE <<plain[i]>>]

\* icaoCallsign: the telephony of an airline designator, "" when unknown
callsigns ==
  (<<"U", "A", "L">> :> <<"u", "n", "i", "t", "e", "d">>) @@
  (<<"F", "D", "X">> :> <<"f", "e", "d", "e", "x">>) @@
  (<<"D", "A", "L">> :> <<"d", "e", "l", "t", "a">>) @@
  (<<"K", "A", "P">> :> <<"c", "a", "i", "r">>) @@
  (<<"N", "K", "S">> :> <<"s", "p", "i", "r", "i", "t">>) @@
  (<<"R", "P", "A">> :> <<"b", "r", "i", "c", "k", "y", "a", "r", "d">>) @@
  (<<"A", "C", "A">> :> <<"a", "i", "r", " ", "c", "a", "n", "a", "d", "a">>) @@
  (<<"P", "O", "E">> :> <<"p", "o", "r", "t", "e", "r">>) @@
  (<<"S", "W", "A">> :> <<"s", "o", "u", "t", "h", "w", "e", "s", "t">>) @@
  (<<"J", "B", "U">> :> <<"j", "e", "t", " ", "b", "l", "u", "e">>) @@
  (<<"E", "I", "N">> :> <<"s", "h", "a", "m", "r", "o", "c", "k">>) @@
  (<<"A", "A", "L">> :> <<"a", "m", "e", "r", "i", "c", "a", "n">>) @@
  (<<"A", "S", "A">> :> <<"a", "l", "a", "s", "k", "a">>) @@
  (<<"F", "F", "T">> :> <<"f", "r", "o", "n", "t", "i", "e", "r", " ", "f", "l", "i", "g", "h", "t">>) @@
  (<<"J", "A", "L">> :> <<"j", "a", "p", "a", "n", " ", "a", "i", "r">>) @@
  (<<"J", "Z", "A">> :> <<"j", "a", "z", "z">>) @@
  (<<"A", "F", "R">> :> <<"a", "i", "r", " ", "f", "r", "a", "n", "c", "e">>) @@
  (<<"F", "P", "Y">> :> <<"p", "l", "a", "y", "e", "r">>) @@
  (<<"W", "U", "P">> :> <<"u", "p", " ", "j", "e", "t">>) @@
  (<<"B", "A", "W">> :> <<"s", "p", "e", "e", "d", " ", "b", "i", "r", "d">>) @@
  (<<"V", "J", "A">> :> <<"v", "i", "s", "t", "a", " ", "a", "m">>)

icaoCallsign(icao) == IF icao \in DOMAIN callsigns THEN callsigns[icao] ELSE <<>>

\* the match of ^[A-Z]{3}, "" when there is none
icaoRegex(ident) ==
  IF Len(ident) >= 3 /\ \A i \in 1..3 : ident[i] \in UpperLetters THEN SubSeq(ident, 1, 3) ELSE <<>>

\* whether ^[0-9]{2,4}$ matches
numberRegex(suffix) == Len(suffix) \in 2..4 /\ AllDigits(suffix)

\* variant: a three-digit flight number is split after its second digit
identToWordsSplitLate(ident) ==
  LET icao == icaoRegex(ident)
      suffix == SubSeq(ident, 4, Len(ident))
      callsign == icaoCallsign(icao)
  IN  IF icao = <<>> THEN phonetic(ident)
      ELSE IF callsign = <<>> THEN phonetic(ident)
      ELSE IF numberRegex(suffix)
        THEN CASE Len(suffix) = 2 -> <<callsign, suffix>>
               [] Len(suffix) = 3 -> <<callsign, SubSeq(suffix, 1, 2), SubSeq(suffix, 3, 3)>>
               [] Len(suffix) = 4 -> <<callsign, SubSeq(suffix, 1, 2), SubSeq(suffix, 3, 4)>>
        ELSE <<callsign>> \o phonetic(suffix)

identToWords(ident) ==
  LET icao == icaoRegex(ident)
      suffix == SubSeq(ident, 4, Len(ident))
      callsign == icaoCallsign(icao)
  IN  IF icao = <<>> THEN phonetic(ident)
      ELSE IF callsign = <<>> THEN phonetic(ident)
      ELSE IF numberRegex(suffix)
        THEN CASE Len(suffix) = 2 -> <<callsign, suffix>>
               [] Len(suffix) = 3 -> <<callsign, SubSeq(suffix, 1, 1), SubSeq(suffix, 2, 3)>>
               [] Len(suffix) = 4 -> <<callsign, SubSeq(suffix, 1, 2), SubSeq(suffix, 3, 4)>>
        ELSE <<callsign>> \o phonetic(suffix)

\* int(f) and the integer division of Go: both truncate toward zero
Quo(a, b) == IF a >= 0 THEN a \div b ELSE -((-a) \div b)

Trunc(f) == Quo(f.tenths, 10)

\* variant: the altitude is rounded to the nearest hundred first
altitudeToWordsRounded(altitude) ==
  LET a == Quo(Trunc(altitude) + 50, 100) * 100
      thousands == Quo(a, 1000)
      hundreds == Quo(a - thousands * 1000, 100)
  IN  (IF thousands > 0 THEN Append(phonetic(Itoa(thousands)), <<"t", "h", "o", "u", "s", "a", "n", "d">>) ELSE <<>>)
      \o (IF hundreds > 0 THEN Append(phonetic(Itoa(hundreds)), <<"h", "u", "n", "d", "r", "e", "d">>) ELSE <<>>)

altitudeToWords(altitude) ==
  LET thousands == Quo(Trunc(altitude), 1000)
      hundreds == Quo(Trunc(altitude) - thousands * 1000, 100)
  IN  (IF thousands > 0 THEN Append(phonetic(Itoa(thousands)), <<"t", "h", "o", "u", "s", "a", "n", "d">>) ELSE <<>>)
      \o (IF hundreds > 0 THEN Append(phonetic(Itoa(hundreds)), <<"h", "u", "n", "d", "r", "e", "d">>) ELSE <<>>)

(***************************************************************************)
(* Single calls of the filter and of the verbalizer functions: each run    *)
(* makes one call and keeps its argument and its value.                    *)
(***************************************************************************)
FilterLats == {<<"0", ".", "8">>, <<"3">>, <<"1", "0">>, <<"-", "1", "0">>, <<"1", "0", ".", "1">>,
               <<"N", "a", "N">>}

FilterAlts == {<<>>, <<"0">>, <<"-", "1", "0", "0">>, <<"1", "5", "0", "0", "0">>,
               <<"1", "5", "0", "0", "0", ".", "1">>, <<"N", "a", "N">>}

FilterReports == {[Report(UAL641, lat, 0) EXCEPT !.Alt = alt] : lat \in FilterLats, alt \in FilterAlts}

Bearings == {Num(t) : t \in 0..MaxBearing} \cup {NaN}

CallIsInteresting ==
  /\ call.fn = "none"
  /\ \E m \in FilterReports :
       /\ newPosition(m).err = ""
       /\ call' = [fn |-> "isInteresting", arg |-> newPosition(m).pos,
                   val |-> isInteresting(newPosition(m).pos)]
  /\ UNCHANGED <<core, sinks, lcd, part001>>

CallCardinalDirection ==
  /\ call.fn = "none"
  /\ \E b \in Bearings : call' = [fn |-> "cardinalDirection", arg |-> b, val |-> cardinalDirection(b)]
  /\ UNCHANGED <<core, sinks, lcd, part001>>

\* strings of at most n characters of the set chars
Strings(chars, n) == UNION {[1..k -> chars] : k \in 0..n}

PlainChars == {"A", "X", "Z", "0", "9", ".", "a", "-"}

Plains == Strings(PlainChars, MaxPlain)

IdentPrefixes == {<<"U", "A", "L">>, <<"F", "D", "X">>, <<"Z", "Z", "Z">>, <<"u", "a", "l">>, <<"U", "a", "l">>, <<"U", "A", "1">>, <<"N", "1", "2">>, <<>>}

SuffixChars == {"1", "2", "A", "a"}

TestIdents == {<<"U", "A", "L", "1", "2", "3", "4">>, <<"F", "D", "X", "7", "1", "2", "3">>, <<"F", "D", "X", "1">>, <<"F", "D", "X", "1", "2">>, <<"F", "D", "X", "1", "2", "3">>, <<"F", "D", "X", "1", "2", "3", "4", "5">>, <<"U", "A", "L", "1", "2", "A">>, <<"N", "1", "2", "3", "4", "5">>, <<"Z", "Z", "Z", "1", "0">>}

Idents == {pre \o suf : pre \in IdentPrefixes, suf \in Strings(SuffixChars, MaxSuffix)} \cup TestIdents

Altitudes == {Num(10 * ft + d) : ft \in 0..MaxAltFt, d \in {0, 9}} \cup {Num(-10 * ft) : ft \in {1, 100, 1100}}

\* position messages with every field good, empty where it may be, or unparseable
ParseMessages ==
  {[Report(UAL641, lat, 0) EXCEPT !.Lon = lon, !.Alt = alt, !.GS = gs, !.Heading = hdg,
                                  !.HeadingTrue = true, !.Clock = clock] :
     lat \in {<<"1">>, <<"x">>}, lon \in {<<"0">>, <<"x">>},
     alt \in {<<>>, <<"0">>, <<"3", "0", "0", "0">>, <<"x">>},
     gs \in {<<>>, <<"0">>, <<"2", "5", "0">>, <<"x">>},
     hdg \in {<<>>, <<"9", "0">>, <<"x">>},
     true \in {<<>>, <<"1", "8", "0">>, <<"x">>},
     clock \in {<<>>, <<"0">>, <<"x">>}}

CallNewPosition ==
  /\ call.fn = "none"
  /\ \E m \in ParseMessages : call' = [fn |-> "newPosition", arg |-> m, val |-> newPosition(m)]
  /\ UNCHANGED <<core, sinks, lcd, part001>>

CallPhonetic ==
  /\ call.fn = "none"
  /\ \E plain \in Plains : call' = [fn |-> "phonetic", arg |-> plain, val |-> phonetic(plain)]
  /\ UNCHANGED <<core, sinks, lcd, part001>>

CallIdentToWords ==
  /\ call.fn = "none"
  /\ \E ident \in Idents : call' = [fn |-> "identToWords", arg |-> ident, val |-> identToWords(ident)]
  /\ UNCHANGED <<core, sinks, lcd, part001>>

CallAltitudeToWords ==
  /\ call.fn = "none"
  /\ \E alt \in Altitudes : call' = [fn |-> "altitudeToWords", arg |-> alt, val |-> altitudeToWords(alt)]
  /\ UNCHANGED <<core, sinks, lcd, part001>>

\* the positions renderPositions can receive: 1 to 3 nm away, with and
\* without altitude, with clock 0 or just over a minute, or with no distance
ReplaceReports ==
  {m \in LcdMessages : m.type = "position" /\ newPosition(m).err = ""}
    \cup {Report(UAL641, <<"N", "a", "N">>, 0)}

\* values of time.Now(): up to and past one minute after the clocks
ReplaceTimes == {0, Minute} \cup {k * (Minute + 1) : k \in 1..MaxTicks}

\* case p := <-positions of renderPositions, on a displayed position or none
CallShouldReplace ==
  /\ call.fn = "none"
  /\ \E m \in ReplaceReports, now \in ReplaceTimes :
     \E pv \in {<<>>} \cup {<<newPosition(d).pos>> : d \in ReplaceReports} :
     \E r \in {newPosition(m).pos} :
       call' = [fn |-> "shouldReplace", arg |-> [prev |-> pv, curr |-> r, now |-> now],
                val |-> [ret |-> shouldReplace(pv, r, now),
                         position |-> IF shouldReplace(pv, r, now) THEN <<r>> ELSE pv]]
  /\ UNCHANGED <<core, sinks, lcd, part001>>

NextCalls ==
  \/ CallShouldReplace
  \/ CallIsInteresting
  \/ CallCardinalDirection
  \/ CallPhonetic
  \/ CallIdentToWords
  \/ CallAltitudeToWords
  \/ CallNewPosition

SpecCalls == Init /\ [][NextCalls]_vars

(***************************************************************************)
(* Properties.  A state with pc = "cleanup" is the state right after       *)
(* handlePosition returned and before the sweep; entry holds the tracker   *)
(* and the clock as they were when the message was received.               *)
(***************************************************************************)
Dist(pos) == DistNM(pos.Point, myLocation)

Handled == pc = "cleanup" /\ msg.type = "position"

Parsed == Handled /\ err = ""

Tracked == Parsed /\ isInteresting(curr)

HadEntry == Tracked /\ curr.FlightID \in DOMAIN entry.flights

Before == entry.flights[curr.FlightID]

\* C1: for an interesting report of a flight that already has a tracker entry, an
\* alert is dispatched if and only if the report is strictly closer to the center
\* than the entry and strictly inside the alert radius.
C1_AlertIffCloserAndInside ==
  HadEntry =>
    IF FLess(Dist(curr), Dist(Before)) /\ FLess(Dist(curr), AlertRadiusNM)
      THEN dispatch = <<curr>>
      ELSE dispatch = <<>>

C1_Witness == HadEntry /\ dispatch = <<curr>> /\ Dist(curr) = Num(8)

\* C2: a report of a flight that has no tracker entry never dispatches an alert,
\* whatever its distance to the center.
C2_FirstSightingNeverAlerts ==
  (Parsed /\ curr.FlightID \notin DOMAIN entry.flights) => dispatch = <<>>

C2_Witness ==
  /\ Tracked
  /\ curr.FlightID \notin DOMAIN entry.flights
  /\ entry.flights # NoFlights
  /\ FLess(Dist(curr), AlertRadiusNM)
  /\ dispatch = <<>>

\* C3: after handlePosition has processed an interesting report of flight f, the
\* tracker maps f to exactly that report, alert or not, and every other entry is
\* as it was.
C3_LastWriteWins ==
  Tracked =>
    /\ curr = newPosition(msg).pos
    /\ DOMAIN flights = DOMAIN entry.flights \cup {curr.FlightID}
    /\ flights[curr.FlightID] = curr
    /\ \A id \in DOMAIN entry.flights \ {curr.FlightID} : flights[id] = entry.flights[id]

C3_Witness ==
  /\ HadEntry
  /\ Before # curr
  /\ dispatch = <<>>
  /\ flights[curr.FlightID] = curr
  /\ Cardinality(DOMAIN flights) >= 2

\* C4: from an empty tracker with alert radius 3, three successive interesting
\* reports of one flight at 1.4 nm, 0.8 nm and 1.2 nm give no alert, an alert,
\* and no alert.
ScenarioDists == <<Num(14), Num(8), Num(12)>>

ScenarioPrefix(n) ==
  /\ Len(log.reports) >= n
  /\ \A i \in 1..n :
       /\ log.reports[i].stored
       /\ log.reports[i].pos.FlightID = UAL641
       /\ Dist(log.reports[i].pos) = ScenarioDists[i]

C4_Scenario ==
  /\ AlertRadiusNM = Num(30)
  /\ \A n \in 1..3 : ScenarioPrefix(n) => (log.reports[n].alert <=> n = 2)
  /\ (Handled /\ Len(log.reports) \in 1..3 /\ ScenarioPrefix(Len(log.reports))) =>
       (dispatch # <<>> <=> Len(log.reports) = 2)

C4_Witness ==
  /\ ScenarioPrefix(3)
  /\ Handled
  /\ Len(log.reports) = 3
  /\ dispatch = <<>>
  /\ ~log.reports[1].alert /\ log.reports[2].alert /\ ~log.reports[3].alert

\* C5: the sweep removes exactly the entries whose timestamp plus CleanupAfter is
\* strictly before the clock and leaves every other entry with its value; an
\* entry whose age is exactly CleanupAfter stays.
C5_SweepRemovesExactlyStale ==
  (pc = "next" /\ swept # <<>>) =>
    /\ DOMAIN flights = {id \in DOMAIN swept[1] : swept[1][id].Timestamp + CleanupAfter >= currentTime}
    /\ \A id \in DOMAIN flights : flights[id] = swept[1][id]

C5_Witness ==
  /\ pc = "next"
  /\ swept # <<>>
  /\ \E id \in DOMAIN flights : flights[id].Timestamp + CleanupAfter = currentTime
  /\ \E id \in DOMAIN swept[1] : id \notin DOMAIN flights

\* C6: a second sweep with no report ingested since the first one leaves the
\* tracker as the first sweep left it.
C6_SweepIdempotent == (pc = "next" /\ quiet) => swept = <<flights>>

C6_Witness == pc = "next" /\ quiet /\ flights # NoFlights /\ swept = <<flights>>

\* C7 as stated: the clock after handling a message is never below the clock
\* before it.
C7_NeverRewound == pc = "cleanup" => currentTime >= entry.currentTime

\* C7 amended: the clock is the timestamp of the most recently parsed report; a
\* message that is no parsed report leaves it as it was, so it goes back exactly
\* when a parsed report carries a timestamp earlier than the clock.
C7_ClockIsLatestParsed ==
  /\ pc = "switch" => currentTime = entry.currentTime
  /\ pc = "cleanup" =>
       IF msg.type = "position" /\ err = ""
         THEN currentTime = ParseInt(msg.Clock).val
         ELSE currentTime = entry.currentTime

C7_Witness ==
  /\ Parsed
  /\ entry.currentTime # ZeroTime
  /\ currentTime = ParseInt(msg.Clock).val
  /\ currentTime < entry.currentTime

\* C8: whenever handlePosition compares a report with the previous entry of its
\* flight, that entry is not older than the report's timestamp minus CleanupAfter.
C8_NoStaleComparison ==
  (pc = "cleanup" /\ prev # <<>>) => prev[1].Timestamp + CleanupAfter >= curr.Timestamp

\* C9: no tracker key is the empty string.
C9_NoEmptyKey == <<>> \notin DOMAIN flights

\* C10: a report newPosition rejects is dropped: the tracker and the clock are as
\* they were, no alert is dispatched and Run goes on to the sweep and the next
\* message.
Rejects(s) == s # <<>> /\ ~ParseFloat(s).ok

Unparseable(m) ==
  \/ ~ParseFloat(m.Lat).ok
  \/ ~ParseFloat(m.Lon).ok
  \/ Rejects(m.Alt)
  \/ Rejects(m.GS)
  \/ Rejects(m.HeadingTrue)
  \/ (m.HeadingTrue = <<>> /\ Rejects(m.Heading))
  \/ ~ParseInt(m.Clock).ok

C10_ParseFailureDropsReport ==
  Handled =>
    /\ err # "" <=> Unparseable(msg)
    /\ err # "" =>
         /\ flights = entry.flights
         /\ currentTime = entry.currentTime
         /\ dispatch = <<>>
         /\ result = "none"

C10_Witness ==
  /\ Handled
  /\ err = "clock"
  /\ msg.ID \in DOMAIN flights
  /\ flights = entry.flights
  /\ currentTime = entry.currentTime

\* C12: Run returns an error when the transport yields an error message or
\* NextMessage fails with anything but cancellation, and nil on cancellation;
\* once Run has returned no step is possible, so no later report is processed
\* and the tracker stays as it was.
C12_RunReturn ==
  /\ pc # "done" => result = "none" /\ err \notin {"canceled", "stream"}
  /\ (pc = "switch" /\ msg.type = "error") =>
        ENABLED ErrorMessage /\ ~ENABLED handlePosition /\ ~ENABLED OtherPayload
  /\ msg.type = "error" => pc \in {"switch", "done"}
  /\ pc = "done" =>
        /\ err = "canceled" \/ err = "stream" \/ msg.type = "error"
        /\ result = "nil" <=> err = "canceled"
        /\ result = "error" <=> (err = "stream" \/ msg.type = "error")
        /\ msg.type = "error" => flights = entry.flights /\ currentTime = entry.currentTime
        /\ ~ENABLED Next

C12_Witness ==
  /\ pc = "done"
  /\ result = "error"
  /\ msg.type = "error"
  /\ flights # NoFlights

\* C21: each report dispatches at most one alert, and a report that follows a
\* stored report of the same flight alerts exactly when it is closer than that
\* report and inside the alert radius, whether or not that report or an
\* earlier one alerted: every report of a closing run inside the radius
\* alerts, and after a non-closing report the comparison is with it.
C21_EveryClosingReportAlerts ==
  /\ Len(dispatch) <= 1
  /\ \A i \in 2..Len(log.reports) :
       (/\ log.reports[i - 1].stored
        /\ log.reports[i].stored
        /\ log.reports[i].pos.FlightID = log.reports[i - 1].pos.FlightID) =>
         (log.reports[i].alert <=>
            /\ FLess(Dist(log.reports[i].pos), Dist(log.reports[i - 1].pos))
            /\ FLess(Dist(log.reports[i].pos), AlertRadiusNM))

C21_Witness ==
  /\ Len(log.reports) = 4
  /\ Handled
  /\ dispatch = <<curr>>
  /\ \A i \in 1..4 : Dist(log.reports[i].pos) = <<Num(14), Num(8), Num(12), Num(8)>>[i]
  /\ \A i \in 1..4 : log.reports[i].alert <=> i \in {2, 4}

\* C22 as stated: a report that parses but fails the interest filter leaves the
\* clock as it was.
C22_FilteredReportKeepsClock ==
  (Parsed /\ ~isInteresting(curr)) => currentTime = entry.currentTime

\* C22 amended: a report that parses but fails the interest filter sets the clock
\* to its timestamp although it changes nothing in the tracker and dispatches
\* nothing, so the sweep that follows evicts by that timestamp.
C22_FilteredReportSetsClock ==
  (Parsed /\ ~isInteresting(curr)) =>
    /\ currentTime = curr.Timestamp
    /\ flights = entry.flights
    /\ dispatch = <<>>
    /\ ENABLED cleanupStaleFlights

C22_Witness ==
  /\ Parsed
  /\ ~isInteresting(curr)
  /\ currentTime > entry.currentTime
  /\ flights # NoFlights
  /\ \A id \in DOMAIN flights :
       /\ flights[id].Timestamp + CleanupAfter >= entry.currentTime
       /\ flights[id].Timestamp + CleanupAfter < currentTime

\* C24: every iteration that does not end the run ends with the sweep, so
\* outside the handling of a message no tracked entry is older than the clock
\* by more than CleanupAfter: a flight last stored with timestamp t is gone
\* once a report with a timestamp above t + CleanupAfter has been handled.
C24_NoStaleEntryBetweenIterations ==
  /\ pc = "cleanup" => ENABLED cleanupStaleFlights /\ ~ENABLED NextMessage /\ ~ENABLED Canceled
  /\ pc # "cleanup" => \A id \in DOMAIN flights : flights[id].Timestamp + CleanupAfter >= currentTime
  /\ (pc = "next" /\ swept # <<>>) =>
       \A id \in DOMAIN swept[1] : swept[1][id].Timestamp + CleanupAfter < currentTime => id \notin DOMAIN flights

C24_Witness ==
  /\ pc = "next"
  /\ swept # <<>>
  /\ flights # NoFlights
  /\ \E id \in DOMAIN swept[1] : swept[1][id].Timestamp + CleanupAfter < currentTime /\ id \notin DOMAIN flights

\* the report is beyond the interesting radius or above the ceiling
Filtered(pos) ==
  \/ FGreater(Dist(pos), InterestingRadiusNM)
  \/ pos.Altitude # <<>> /\ FGreater(pos.Altitude[1], InterestingCeilingFt)

\* the stored reports of the flight of report i that came before it
StoredBefore(i) ==
  {j \in 1..(i - 1) : log.reports[j].stored /\ log.reports[j].pos.FlightID = log.reports[i].pos.FlightID}

LastStored(i) == CHOOSE j \in StoredBefore(i) : \A k \in StoredBefore(i) : k <= j

\* a report between j and i moved the clock beyond the age limit of report j
EvictedBetween(j, i) ==
  \E k \in (j + 1)..(i - 1) : log.reports[k].pos.Timestamp > log.reports[j].pos.Timestamp + CleanupAfter

CloserAndInside(c, p) == FLess(Dist(c), Dist(p)) /\ FLess(Dist(c), AlertRadiusNM)

FilteredReportKeepsTracker == (Parsed /\ Filtered(curr)) => flights = entry.flights /\ dispatch = <<>>

\* C23 as stated: a report that fails the interest filter leaves the tracker as
\* it was in handlePosition, and the next interesting report of its flight is
\* compared with the last interesting one.
C23_NextComparedWithLastInteresting ==
  /\ FilteredReportKeepsTracker
  /\ \A i \in 2..Len(log.reports) :
       (log.reports[i].stored /\ ~log.reports[i - 1].stored /\ StoredBefore(i) # {}) =>
         (log.reports[i].alert <=> CloserAndInside(log.reports[i].pos, log.reports[LastStored(i)].pos))

\* C23 amended: a report that fails the interest filter leaves the tracker as
\* it was in handlePosition, and the next interesting report of its flight is
\* compared with the last interesting one unless a report in between carried
\* a timestamp that made the sweep evict it; then it is a first sighting.
C23_NextComparedUnlessEvicted ==
  /\ FilteredReportKeepsTracker
  /\ \A i \in 2..Len(log.reports) :
       (log.reports[i].stored /\ ~log.reports[i - 1].stored /\ StoredBefore(i) # {}) =>
         (log.reports[i].alert <=>
            /\ ~EvictedBetween(LastStored(i), i)
            /\ CloserAndInside(log.reports[i].pos, log.reports[LastStored(i)].pos))

C23_Witness ==
  /\ Handled
  /\ Len(log.reports) = 3
  /\ \A i \in 1..3 : Dist(log.reports[i].pos) = <<Num(14), Num(101), Num(8)>>[i]
  /\ ~log.reports[2].stored
  /\ log.reports[3].alert
  /\ Before = log.reports[1].pos

(***************************************************************************)
(* Properties of the sinks (SpecSinks).                                    *)
(***************************************************************************)
Started(c, a) ==
  [pos |-> c,
   args |-> [displayFlight |-> a, postWebhook |-> a, say |-> a],
   runs |-> NoRuns,
   displayFlight |-> "go", postWebhook |-> "go", say |-> "go"]

\* the step of the ingestion loop that is due is enabled
LoopCanStep ==
  /\ pc = "next" => ENABLED Canceled /\ (Len(sinks.tasks) < MaxDispatches => ENABLED NextMessageSinks)
  /\ pc = "switch" => ENABLED handlePosition \/ ENABLED ErrorMessage \/ ENABLED OtherPayload
  /\ pc = "cleanup" => ENABLED cleanupStaleFlights

\* C13: the handlePosition step that dispatches an alert only starts the three
\* tasks, none of them has returned when it ends and the tasks of earlier
\* dispatches are as they were; whatever tasks are running, the step of the
\* loop that is due (next message, cancellation, handling, sweep) is enabled.
C13_LoopNeverWaits ==
  [][/\ LoopCanStep
     /\ (pc = "switch" /\ pc' = "cleanup" /\ dispatch' # <<>>) =>
          sinks'.tasks = Append(sinks.tasks, Started(dispatch'[1], newAddr(sinks)))]_vars

C13_Witness ==
  /\ pc = "done"
  /\ result = "nil"
  /\ Len(sinks.tasks) = 2
  /\ sinks.tasks[1] = Started(sinks.tasks[1].pos, sinks.tasks[1].args.say)
  /\ sinks.tasks[2] = Started(sinks.tasks[2].pos, sinks.tasks[2].args.say)

\* a step of one sink: one goroutine of one dispatch returns
SinkStep(i, f) ==
  /\ sinks.tasks[i][f] = "go"
  /\ sinks'.tasks[i][f] # "go"
  /\ sinks' = [sinks EXCEPT !.tasks[i][f] = sinks'.tasks[i][f], !.tasks[i].runs[f] = sinks'.tasks[i].runs[f]]

\* C14: a sink that returns, failed or not, changes nothing but its own
\* state: tracker, clock, loop position and Run's result stay as they are,
\* Run has an error only from the transport, and every goroutine that has
\* not returned can still run, whatever the others of its dispatch did.
C14_SinkFailuresIsolated ==
  [][/\ result' = "error" => (err' = "stream" \/ msg'.type = "error")
     /\ \A i \in DOMAIN sinks.tasks :
          /\ sinks.tasks[i].displayFlight = "go" => ENABLED displayFlight(i)
          /\ sinks.tasks[i].postWebhook = "go" => ENABLED postWebhook(i)
          /\ sinks.tasks[i].say = "go" => ENABLED say(i)
     /\ (\E i \in DOMAIN sinks.tasks : \E f \in {"displayFlight", "postWebhook", "say"} : SinkStep(i, f)) =>
          UNCHANGED <<flights, currentTime, pc, result, msg, err, curr, prev, dispatch>>]_vars

C14_Witness ==
  /\ pc = "next"
  /\ result = "none"
  /\ Len(sinks.tasks) = 2
  /\ sinks.tasks[1].postWebhook = "failed"
  /\ sinks.tasks[1].say = "failed"
  /\ sinks.tasks[1].displayFlight = "done"
  /\ sinks.tasks[2].postWebhook = "failed"
  /\ sinks.tasks[2].say = "spoken"
  /\ sinks.tasks[2].displayFlight = "done"
  /\ Lookup(flights, UAL641) = <<sinks.tasks[2].pos>>

\* C28: every dispatch has one goroutine per sink and none runs twice: the
\* display has printed once when it is done; the webhook has sent one request
\* when it ended with a response or with an error or timeout of the request,
\* and none otherwise, in particular none without a URL; say has run the
\* command once when it ended spoken or failed, and never without Announce.
C28_EachSinkOnceNoRetry ==
  \A i \in DOMAIN sinks.tasks :
    LET t == sinks.tasks[i]
    IN /\ t.displayFlight \in {"go", "done"}
       /\ t.runs.displayFlight = (IF t.displayFlight = "done" THEN 1 ELSE 0)
       /\ t.postWebhook \in (IF sinks.WebhookURL = <<>> THEN {"go", "skipped"}
                                                        ELSE {"go", "unsent", "responded", "failed"})
       /\ t.runs.postWebhook = (IF t.postWebhook \in {"responded", "failed"} THEN 1 ELSE 0)
       /\ t.say \in (IF sinks.Announce THEN {"go", "spoken", "failed"} ELSE {"go", "skipped"})
       /\ t.runs.say = (IF t.say \in {"spoken", "failed"} THEN 1 ELSE 0)

C28_Witness ==
  /\ Len(sinks.tasks) = 2
  /\ sinks.tasks[1].displayFlight = "done"
  /\ sinks.tasks[1].postWebhook = "failed"
  /\ sinks.tasks[1].say = "failed"
  /\ sinks.tasks[1].runs = [displayFlight |-> 1, postWebhook |-> 1, say |-> 1]
  /\ sinks.tasks[2].postWebhook = "unsent"
  /\ sinks.tasks[2].runs.postWebhook = 0

\* the Position records one dispatch hands to its three goroutines
Args(t) == {t.args.displayFlight, t.args.postWebhook, t.args.say}

\* C29: the three goroutines of a dispatch are handed three different
\* Position records, and none of them is a record the tracker holds or a
\* record of another dispatch.
C29_EachSinkOwnsItsCopy ==
  \A i \in DOMAIN sinks.tasks :
    /\ Cardinality(Args(sinks.tasks[i])) = 3
    /\ \A id \in DOMAIN sinks.tracked : sinks.tracked[id] \notin Args(sinks.tasks[i])
    /\ \A j \in DOMAIN sinks.tasks : j # i => Args(sinks.tasks[i]) \cap Args(sinks.tasks[j]) = {}

\* C30: the tracker and the clock change only in the handling step and in
\* the sweep of the loop; a goroutine of a sink that returns leaves tracker,
\* clock and loop position alone and its outcome is one its configuration
\* allows; a message is read only after the sweep of the one before, and the
\* handling of a message is followed by its sweep or by the end of Run.
C30_TrackerOnlyInLoop ==
  [][/\ (flights' # flights \/ currentTime' # currentTime) =>
          (pc = "switch" /\ pc' = "cleanup") \/ (pc = "cleanup" /\ pc' = "next")
     /\ \A i \in DOMAIN sinks.tasks : \A f \in {"displayFlight", "postWebhook", "say"} :
          SinkStep(i, f) =>
            /\ UNCHANGED <<flights, currentTime, pc, msg, curr, prev>>
            /\ f = "postWebhook" => sinks'.tasks[i][f] \in postWebhookReturns(sinks)
            /\ f = "say" => sinks'.tasks[i][f] \in sayReturns(sinks)
     /\ (pc' = "switch" /\ pc # "switch") => pc = "next" /\ swept' = <<>> /\ UNCHANGED <<flights, currentTime>>
     /\ (pc' = "next" /\ pc # "next") => pc = "cleanup" /\ flights' = Sweep(flights, currentTime)
     /\ (pc = "switch" /\ pc' # "switch") => pc' \in {"cleanup", "done"}
     /\ sinks'.tracked = [id \in DOMAIN flights' |-> sinks'.tracked[id]]]_vars

C30_Witness ==
  /\ pc = "cleanup"
  /\ dispatch # <<>>
  /\ flights # entry.flights
  /\ Len(sinks.tasks) = 2
  /\ sinks.tasks[2].displayFlight = "done"
  /\ sinks.tasks[2].say = "go"
  /\ sinks.tasks[1].postWebhook = "go"
  /\ sinks.tasks[1].say = "failed"

(***************************************************************************)
(* Properties of the display variant (SpecLcd).                            *)
(***************************************************************************)
\* C20: the position on display lies within the radius of the location and
\* is not above the ceiling.
C20_DisplayedWithinRadiusAndCeiling ==
  lcd.position # <<>> =>
    /\ FLessEq(Dist(lcd.position[1]), RadiusNM)
    /\ lcd.position[1].Altitude # <<>> => FLessEq(lcd.position[1].Altitude[1], CeilingFt)

(***************************************************************************)
(* Properties of single calls (SpecCalls).                                 *)
(***************************************************************************)
\* C11: isInteresting is true if and only if the distance to the center is at
\* most the interesting radius and the altitude is absent or at most the ceiling.
C11_InterestingIff ==
  call.fn = "isInteresting" =>
    (call.val <=>
       /\ FLessEq(Dist(call.arg), InterestingRadiusNM)
       /\ (call.arg.Altitude = <<>> \/ FLessEq(call.arg.Altitude[1], InterestingCeilingFt)))

\* C15 as stated: 0, 22.5 and 337.5 are north, 22.6 is northeast, 337.4 is
\* northwest.
C15_CompassPoints ==
  call.fn = "cardinalDirection" =>
    /\ call.arg = Num(0) => call.val = <<"n", "o", "r", "t", "h">>
    /\ call.arg = Num(225) => call.val = <<"n", "o", "r", "t", "h">>
    /\ call.arg = Num(226) => call.val = <<"n", "o", "r", "t", "h", "e", "a", "s", "t">>
    /\ call.arg = Num(3375) => call.val = <<"n", "o", "r", "t", "h">>
    /\ call.arg = Num(3374) => call.val = <<"n", "o", "r", "t", "h", "w", "e", "s", "t">>

\* C15 amended: 0 and 22.5 are north, 22.6 is northeast, 337.4 and 337.5 are
\* northwest; north starts strictly above 337.5.
C15_CompassPointsUpperEdge ==
  call.fn = "cardinalDirection" =>
    /\ call.arg = Num(0) => call.val = <<"n", "o", "r", "t", "h">>
    /\ call.arg = Num(225) => call.val = <<"n", "o", "r", "t", "h">>
    /\ call.arg = Num(226) => call.val = <<"n", "o", "r", "t", "h", "e", "a", "s", "t">>
    /\ call.arg = Num(3375) => call.val = <<"n", "o", "r", "t", "h", "w", "e", "s", "t">>
    /\ call.arg = Num(3374) => call.val = <<"n", "o", "r", "t", "h", "w", "e", "s", "t">>
    /\ call.arg = Num(3376) => call.val = <<"n", "o", "r", "t", "h">>

C15_Witness ==
  /\ call.fn = "cardinalDirection"
  /\ call.arg = Num(3375)
  /\ call.val = <<"n", "o", "r", "t", "h", "w", "e", "s", "t">>

\* the words of a call contain no upper-case letter
LowerCase(out) == \A i \in 1..Len(out) : \A j \in 1..Len(out[i]) : out[i][j] \notin UpperLetters

HasLowerLetter(str) == \E i \in 1..Len(str) : str[i] \in DOMAIN upperOf

\* C16: identToWords spells the ident with phonetic unless it starts with three
\* upper-case letters that have a callsign; then the callsign is followed by
\* the suffix: two digits as one word, three digits as 1 + 2, four digits as
\* 2 + 2, and any other suffix spelled with phonetic.
C16_IdentToWords ==
  call.fn = "identToWords" =>
    LET ident == call.arg
        out == call.val
        coded == /\ Len(ident) >= 3
                 /\ \A i \in 1..3 : ident[i] \in UpperLetters
                 /\ SubSeq(ident, 1, 3) \in DOMAIN callsigns
        suf == SubSeq(ident, 4, Len(ident))
        digits == \A i \in 1..Len(suf) : suf[i] \in Digits
    IN  /\ ~coded => out = phonetic(ident)
        /\ coded =>
             /\ Len(out) >= 1
             /\ out[1] = callsigns[SubSeq(ident, 1, 3)]
             /\ (digits /\ Len(suf) = 2) => Tail(out) = <<suf>>
             /\ (digits /\ Len(suf) = 3) => Tail(out) = <<<<suf[1]>>, <<suf[2], suf[3]>>>>
             /\ (digits /\ Len(suf) = 4) => Tail(out) = <<<<suf[1], suf[2]>>, <<suf[3], suf[4]>>>>
             /\ (~digits \/ Len(suf) \notin 2..4) => Tail(out) = phonetic(suf)
        /\ ident = <<"U", "A", "L", "1", "2", "3", "4">> =>
             out = <<<<"u", "n", "i", "t", "e", "d">>, <<"1", "2">>, <<"3", "4">>>>
        /\ ident = <<"F", "D", "X", "7", "1", "2", "3">> =>
             out = <<<<"f", "e", "d", "e", "x">>, <<"7", "1">>, <<"2", "3">>>>
        /\ ident = <<"F", "D", "X", "1">> =>
             out = <<<<"f", "e", "d", "e", "x">>, <<"o", "n", "e">>>>
        /\ ident = <<"F", "D", "X", "1", "2">> =>
             out = <<<<"f", "e", "d", "e", "x">>, <<"1", "2">>>>
        /\ ident = <<"F", "D", "X", "1", "2", "3">> =>
             out = <<<<"f", "e", "d", "e", "x">>, <<"1">>, <<"2", "3">>>>
        /\ ident = <<"F", "D", "X", "1", "2", "3", "4", "5">> =>
             out = <<<<"f", "e", "d", "e", "x">>, <<"o", "n", "e">>, <<"t", "w", "o">>, <<"t", "h", "r", "e", "e">>, <<"f", "o", "u", "r">>, <<"f", "i", "v", "e">>>>
        /\ ident = <<"U", "A", "L", "1", "2", "A">> =>
             out = <<<<"u", "n", "i", "t", "e", "d">>, <<"o", "n", "e">>, <<"t", "w", "o">>, <<"a", "l", "p", "h", "a">>>>
        /\ ident = <<"N", "1", "2", "3", "4", "5">> =>
             out = <<<<"n", "o", "v", "e", "m", "b", "e", "r">>, <<"o", "n", "e">>, <<"t", "w", "o">>, <<"t", "h", "r", "e", "e">>, <<"f", "o", "u", "r">>, <<"f", "i", "v", "e">>>>
        /\ ident = <<"Z", "Z", "Z", "1", "0">> =>
             out = <<<<"z", "u", "l", "u">>, <<"z", "u", "l", "u">>, <<"z", "u", "l", "u">>, <<"o", "n", "e">>, <<"z", "e", "r", "o">>>>

C16_Witness ==
  /\ call.fn = "identToWords"
  /\ call.arg = <<"F", "D", "X", "1", "2", "3">>
  /\ call.val = <<<<"f", "e", "d", "e", "x">>, <<"1">>, <<"2", "3">>>>

\* C17: altitudeToWords spells the thousands of the truncated altitude followed
\* by "thousand" when there are any, then the hundreds followed by "hundred"
\* when there are any; tens, units and the fraction are dropped.
C17_AltitudeToWords ==
  call.fn = "altitudeToWords" =>
    LET tenths == call.arg.tenths
        a == IF tenths >= 0 THEN tenths \div 10 ELSE -((-tenths) \div 10)
        thousands == IF a >= 0 THEN a \div 1000 ELSE -((-a) \div 1000)
        rest == a - thousands * 1000
        hundreds == IF rest >= 0 THEN rest \div 100 ELSE -((-rest) \div 100)
        out == call.val
    IN  /\ out = (IF thousands > 0 THEN phonetic(Itoa(thousands)) \o <<<<"t", "h", "o", "u", "s", "a", "n", "d">>>> ELSE <<>>)
                  \o (IF hundreds > 0 THEN phonetic(Itoa(hundreds)) \o <<<<"h", "u", "n", "d", "r", "e", "d">>>> ELSE <<>>)
        /\ a < 100 => out = <<>>
        /\ a = 100 =>
             out = <<<<"o", "n", "e">>, <<"h", "u", "n", "d", "r", "e", "d">>>>
        /\ a = 900 =>
             out = <<<<"n", "i", "n", "e", "r">>, <<"h", "u", "n", "d", "r", "e", "d">>>>
        /\ a = 1000 =>
             out = <<<<"o", "n", "e">>, <<"t", "h", "o", "u", "s", "a", "n", "d">>>>
        /\ a = 1100 =>
             out = <<<<"o", "n", "e">>, <<"t", "h", "o", "u", "s", "a", "n", "d">>, <<"o", "n", "e">>, <<"h", "u", "n", "d", "r", "e", "d">>>>
        /\ a = 9999 =>
             out = <<<<"n", "i", "n", "e", "r">>, <<"t", "h", "o", "u", "s", "a", "n", "d">>, <<"n", "i", "n", "e", "r">>, <<"h", "u", "n", "d", "r", "e", "d">>>>
        /\ a = 10000 =>
             out = <<<<"o", "n", "e">>, <<"z", "e", "r", "o">>, <<"t", "h", "o", "u", "s", "a", "n", "d">>>>
        /\ a = 11000 =>
             out = <<<<"o", "n", "e">>, <<"o", "n", "e">>, <<"t", "h", "o", "u", "s", "a", "n", "d">>>>
        /\ a = 11220 =>
             out = <<<<"o", "n", "e">>, <<"o", "n", "e">>, <<"t", "h", "o", "u", "s", "a", "n", "d">>, <<"t", "w", "o">>, <<"h", "u", "n", "d", "r", "e", "d">>>>

C17_Witness ==
  /\ call.fn = "altitudeToWords"
  /\ call.arg = Num(99999)
  /\ call.val = <<<<"n", "i", "n", "e", "r">>, <<"t", "h", "o", "u", "s", "a", "n", "d">>, <<"n", "i", "n", "e", "r">>, <<"h", "u", "n", "d", "r", "e", "d">>>>

\* C18: phonetic gives one word per character, in order: the word of the
\* table for A-Z, 0-9 and '.', the character itself for any other character.
C18_OneWordPerCharacter ==
  /\ DOMAIN alphabet = UpperLetters \cup Digits \cup {"."}
  /\ alphabet["9"] = <<"n", "i", "n", "e", "r">>
  /\ alphabet["."] = <<"p", "o", "i", "n", "t">>
  /\ call.fn = "phonetic" =>
       /\ Len(call.val) = Len(call.arg)
       /\ \A i \in 1..Len(call.arg) :
            IF call.arg[i] \in UpperLetters \cup Digits \cup {"."}
              THEN call.val[i] = alphabet[call.arg[i]]
              ELSE call.val[i] = <<call.arg[i]>>

C18_Witness ==
  /\ call.fn = "phonetic"
  /\ call.arg = <<"9", "-", ".">>
  /\ call.val = <<<<"n", "i", "n", "e", "r">>, <<"-">>, <<"p", "o", "i", "n", "t">>>>

\* C19 as stated: phonetic and identToWords give the same words for an input
\* and for its upper-cased form, and every word is lower-case.
C19_CaseInsensitive ==
  /\ call.fn = "phonetic" => call.val = phonetic(ToUpper(call.arg)) /\ LowerCase(call.val)
  /\ call.fn = "identToWords" => call.val = identToWords(ToUpper(call.arg)) /\ LowerCase(call.val)

\* C19 amended: the rules are case-sensitive.  A lower-case letter given to
\* phonetic is passed through as its own word, an ident whose first three
\* characters are not all upper-case is spelled with phonetic, and an input
\* with a lower-case letter never gives the words of its upper-cased form;
\* every word is lower-case.
C19_CaseSensitive ==
  /\ call.fn = "phonetic" =>
       /\ \A i \in 1..Len(call.arg) : call.arg[i] \in DOMAIN upperOf => call.val[i] = <<call.arg[i]>>
       /\ HasLowerLetter(call.arg) => call.val # phonetic(ToUpper(call.arg))
       /\ LowerCase(call.val)
  /\ call.fn = "identToWords" =>
       /\ (Len(call.arg) >= 3 /\ HasLowerLetter(SubSeq(call.arg, 1, 3))) =>
            /\ Len(call.val) = Len(call.arg)
            /\ \A i \in 1..Len(call.arg) : call.arg[i] \in DOMAIN upperOf => call.val[i] = <<call.arg[i]>>
       /\ HasLowerLetter(call.arg) => call.val # identToWords(ToUpper(call.arg))
       /\ LowerCase(call.val)

C19_Witness ==
  /\ call.fn = "identToWords"
  /\ call.arg = <<"u", "a", "l", "1", "2">>
  /\ call.val = <<<<"u">>, <<"a">>, <<"l">>, <<"o", "n", "e">>, <<"t", "w", "o">>>>
  /\ identToWords(ToUpper(call.arg)) = <<<<"u", "n", "i", "t", "e", "d">>, <<"1", "2">>>>

\* both programs are between two loop iterations, or both have returned
BothBetweenIterations == pc = part001.pc /\ pc \in {"next", "done"}

\* C32: whenever main.go and part_001 have handled the same messages, they
\* have dispatched an alert for the same reports, hold the same tracker and
\* the same clock, and Run has returned the same in both.
C32_VariantsAgree ==
  BothBetweenIterations =>
    /\ log.reports = part001.reports
    /\ flights = part001.flights
    /\ currentTime = part001.currentTime
    /\ result = part001.result

\* three reports of UAL641: stored, closer and announced, then one outside
\* the interesting radius whose clock evicts the entry in both programs
C32_Witness ==
  /\ BothBetweenIterations
  /\ pc = "next"
  /\ part001.Announce
  /\ Len(part001.reports) = 3
  /\ part001.reports[2].alert
  /\ ~part001.reports[3].stored
  /\ part001.flights = NoFlights
  /\ part001.currentTime = CleanupAfter + 1

\* ground distance and altitude of a position in feet (608 ft to the tenth
\* of a nautical mile), an absent altitude counted as 5000 ft
GroundFt(p) == Dist(p).tenths * 608

AltFt(p) == IF p.Altitude = <<>> THEN 5000 ELSE p.Altitude[1].tenths \div 10

\* the 3-D distance of c is a number and strictly smaller than that of p
Closer3D(c, p) ==
  /\ ~Dist(c).nan /\ ~Dist(p).nan
  /\ \A q \in {c, p} : q.Altitude # <<>> => ~q.Altitude[1].nan
  /\ GroundFt(c) * GroundFt(c) + AltFt(c) * AltFt(c) < GroundFt(p) * GroundFt(p) + AltFt(p) * AltFt(p)

\* C31: shouldReplace(prev, curr) is true if and only if prev is absent, or
\* curr is closer in 3-D (ground distance in feet and altitude, 5000 ft when
\* absent), or prev's timestamp is more than one minute before the current
\* time; renderPositions then displays curr, and keeps prev otherwise.
C31_ShouldReplaceIff ==
  call.fn = "shouldReplace" =>
    LET a == call.arg
    IN /\ call.val.ret <=>
            \/ a.prev = <<>>
            \/ a.prev # <<>> /\ Closer3D(a.curr, a.prev[1])
            \/ a.prev # <<>> /\ a.now - a.prev[1].Timestamp > 60
       /\ call.val.position = IF call.val.ret THEN <<a.curr>> ELSE a.prev

\* the displayed position is closer, has an altitude and is just over a minute
\* old: the farther position without altitude replaces it
C31_Witness ==
  /\ call.fn = "shouldReplace"
  /\ call.arg.prev # <<>>
  /\ ~Closer3D(call.arg.curr, call.arg.prev[1])
  /\ call.arg.curr.Altitude = <<>>
  /\ call.arg.prev[1].Altitude # <<>>
  /\ call.arg.now - call.arg.prev[1].Timestamp = Minute + 1
  /\ call.val.ret
  /\ call.val.position = <<call.arg.curr>>

\* C25: the heading is parsed from the true heading when that field is
\* non-empty, else from the magnetic heading when that is non-empty, and is
\* absent, without a heading error, when both are empty.
C25_HeadingPrecedence ==
  call.fn = "newPosition" =>
    LET m == call.arg
        r == call.val
    IN  /\ r.err = "" =>
             r.pos.Heading = (IF m.HeadingTrue # <<>> THEN <<ParseFloat(m.HeadingTrue).val>>
                              ELSE IF m.Heading # <<>> THEN <<ParseFloat(m.Heading).val>>
                              ELSE <<>>)
        /\ (m.HeadingTrue = <<>> /\ m.Heading = <<>>) => r.err # "heading"
        /\ (m.HeadingTrue # <<>> /\ r.err = "heading") => Rejects(m.HeadingTrue)
        /\ (m.HeadingTrue = <<>> /\ r.err = "heading") => Rejects(m.Heading)

C25_Witness ==
  /\ call.fn = "newPosition"
  /\ call.arg.Heading = <<"9", "0">>
  /\ call.arg.HeadingTrue = <<"1", "8", "0">>
  /\ call.val.err = ""
  /\ call.val.pos.Heading = <<Num(1800)>>

\* C26: when the fields before the heading parse, a non-empty magnetic or
\* true heading that is no number gives a heading error, whatever the other
\* heading field holds.
C26_BadHeadingIsError ==
  call.fn = "newPosition" =>
    LET m == call.arg
    IN  (/\ ParseFloat(m.Lat).ok /\ ParseFloat(m.Lon).ok
         /\ ~Rejects(m.Alt) /\ ~Rejects(m.GS)
         /\ (Rejects(m.Heading) \/ Rejects(m.HeadingTrue))) =>
          call.val.err = "heading"

\* the first field, in the order of newPosition, that makes it fail
FirstBadField(m) ==
  LET hdg == IF m.HeadingTrue # <<>> THEN m.HeadingTrue ELSE m.Heading
      bad == <<~ParseFloat(m.Lat).ok, ~ParseFloat(m.Lon).ok, Rejects(m.Alt), Rejects(m.GS),
               Rejects(hdg), ~ParseInt(m.Clock).ok>>
      name == <<"lat", "lon", "alt", "gs", "heading", "clock">>
      at == {i \in 1..6 : bad[i]}
  IN  IF at = {} THEN "" ELSE name[CHOOSE i \in at : \A j \in at : i <= j]

\* C27: an empty altitude or ground speed is absent, without error; one that
\* parses is present with its value, 0 included; one that is non-empty and no
\* number fails the report; the error names the first failing field in the
\* order lat, lon, alt, gs, heading, clock.
C27_OptionalFieldsAndFieldOrder ==
  call.fn = "newPosition" =>
    LET m == call.arg
        r == call.val
    IN  /\ r.err = FirstBadField(m)
        /\ r.err # "" => r.pos = NoPosition
        /\ r.err = "" =>
             /\ r.pos.Altitude = (IF m.Alt = <<>> THEN <<>> ELSE <<ParseFloat(m.Alt).val>>)
             /\ r.pos.Speed = (IF m.GS = <<>> THEN <<>> ELSE <<ParseFloat(m.GS).val>>)
             /\ m.Alt = <<"0">> => r.pos.Altitude = <<Num(0)>>
             /\ m.GS = <<"0">> => r.pos.Speed = <<Num(0)>>
        /\ (m.Alt = <<>> /\ m.GS = <<>>) => r.err \notin {"alt", "gs"}

C27_Witness ==
  /\ call.fn = "newPosition"
  /\ call.arg.Alt = <<"0">>
  /\ call.arg.GS = <<>>
  /\ call.val.err = ""
  /\ call.val.pos.Altitude = <<Num(0)>>
  /\ call.val.pos.Speed = <<>>

====
